---- MODULE Spec2Model ----
(***************************************************************************)
(* ScamBait-X honeypot: a state-machine model of the rate limiter, the     *)
(* mode switcher, the conversation agent and the API gateway.              *)
(*                                                                         *)
(* The service runs on one cooperative (asyncio) scheduler: code between   *)
(* two suspension points (await) runs without interleaving, so each action *)
(* below is one such run-to-suspension segment of a handler.               *)
(***************************************************************************)
EXTENDS Integers, Sequences, FiniteSets, TLC

(***************************************************************************)
(* Bounds of the model.                                                    *)
(***************************************************************************)
MaxTime == 7
MaxTimeout == 2
\* Mode switcher taken alone: the session it is called on, and the calls.
MaxTurnCount == 12
MaxPrior == 2
MaxSig == 2
MaxOps == 2
\* Frames received over /ws/honeypot: by one connection, by two at once.
MaxSeqFrames == 3
MaxWsFrames == 3
\* Requests received by POST /api/honeypot.
MaxApiRequests == 2
\* Frames and session requests received while sessions come and go.
MaxLifeFrames == 3
MaxLifeSessions == 2
MaxRestCalls == 2

(***************************************************************************)
(* Program constants.                                                      *)
(***************************************************************************)
\* settings.rate_limit_per_minute: the capacity handed to the limiter.
TokensPerMinute == 60
\* refill_rate = tokens_per_minute / 60.0 tokens per second.
SecondsPerMinute == 60
\* acquire() polls with asyncio.sleep(0.5): one tick of model time is 0.5 s.
TicksPerSecond == 2
\* ModeSwitcher's thresholds.
MIN_TURNS_FOR_AGGRESSIVE == 4
URGENCY_THRESHOLD == 3
GREED_THRESHOLD == 2
MAX_PATIENCE_TURNS == 12
\* "if fear >= 2" in _should_switch_to_aggressive.
FEAR_THRESHOLD == 2

VARIABLES
    \* ---- TokenBucketRateLimiter ----
    now,          \* time(), in ticks of 0.5 s
    max_tokens,   \* self.max_tokens
    tokens,       \* self.tokens, in units of 1/UnitsPerToken token
    last_refill,  \* self.last_refill
    acq,          \* per caller: the acquire() call in flight
    granted,      \* history: number of acquire() calls that returned True
    \* ---- Session objects and the ModeSwitcher singleton ----
    sess,            \* the Session objects, by object id
    switch_history,  \* mode_switcher.switch_history
    \* ---- the gateway: /ws/honeypot connections ----
    active_sessions,  \* keys of main.active_sessions (each maps to sess[key])
    session_agents,   \* keys of main.session_agents (the agent of sess[key])
    conn,             \* per connection: where its handler stands, its locals
    ws_sent,          \* per connection: the frames sent to the client
    frames_in,        \* number of frames received so far
    classify_calls,   \* history: number of classify_scam() calls made
    \* ---- the mode switcher called directly ----
    sw_ret,       \* the ModeSwitchSignal the last analyze_and_switch returned
    sw_msg,       \* the message that call was given
    sw_ops,       \* number of calls made
    \* ---- the gateway: POST /api/honeypot ----
    expected_key,    \* os.getenv("HONEYPOT_API_KEY", "")
    voice_sessions,  \* main.voice_sessions
    api,             \* per request being served: where it stands, its locals
    api_in,          \* number of requests received so far
    callbacks,       \* the callbacks scheduled with background_tasks.add_task
    callbacks_run,   \* how many of them have run
    \* ---- the gateway: the session endpoints and the lifespan ----
    rest,            \* the response of the last session request served
    rest_in,         \* number of session requests received so far
    serving,         \* FALSE once the lifespan's shutdown has run
    \* ---- the mock scammer and the endpoints that drive it ----
    scammer,         \* the MockScammer object, None before it is created
    mock_call,       \* the get_next_message() call asleep in its delay
    mock_log,        \* history: what each finished call returned
    mock_ws,         \* the handler driving the scammer: where it stands,
                     \* the frames it sent
    \* ---- the library called directly ----
    lib_detector,    \* a VoiceScamDetector
    lib_analysis,    \* the ScamAnalysis its last analyze() returned
    threat_graph,    \* intel.threat_graph: the _graph of the singleton
    graph_recorded,  \* history: per session id, the entities the last
                     \* add_session_entities() call for it was given
    redis_store,     \* db.redis_store: its _client, and whether a
                     \* connect() is awaiting the ping
    postgres_store,  \* db.postgres_store: its _engine and
                     \* _session_factory, and whether a connect() is
                     \* awaiting the test query
    lib_classifier,  \* a ScamClassifier: its use_llm, the text of its
                     \* last classify(), whether that call is awaiting
                     \* the model, and history: the calls made
    lib_call         \* the last library call made: its name, its
                     \* arguments, what it returned

bucketVars == <<now, max_tokens, tokens, last_refill, acq, granted>>

sessVars == <<sess, switch_history>>

swVars == <<sw_ret, sw_msg, sw_ops>>

gwVars ==
    <<active_sessions, session_agents, conn, ws_sent, frames_in, classify_calls>>

apiVars ==
    <<expected_key, voice_sessions, api, api_in, callbacks, callbacks_run>>

restVars == <<rest, rest_in, serving>>

mockVars == <<scammer, mock_call, mock_log, mock_ws>>

detVars == <<lib_detector, lib_analysis>>

graphVars == <<threat_graph, graph_recorded>>

storeVars == <<redis_store, postgres_store>>

libVars == <<detVars, graphVars, storeVars, lib_classifier, lib_call>>

vars ==
    <<bucketVars, sessVars, swVars, gwVars, apiVars, restVars, mockVars,
      libVars>>

\* What each part of the model leaves alone.
notBucket ==
    <<sessVars, swVars, gwVars, apiVars, restVars, mockVars, libVars>>

notSwitch == <<bucketVars, gwVars, apiVars, restVars, mockVars, libVars>>

notGateway ==
    <<bucketVars, switch_history, swVars, apiVars, restVars, mockVars,
      libVars>>

notApi ==
    <<bucketVars, switch_history, swVars, active_sessions, session_agents,
      conn, ws_sent, frames_in, restVars, mockVars, libVars>>

notRest ==
    <<bucketVars, switch_history, swVars, apiVars, conn, ws_sent, frames_in,
      classify_calls, mockVars, libVars>>

notMock ==
    <<bucketVars, sessVars, swVars, gwVars, apiVars, restVars, libVars>>

notLib ==
    <<bucketVars, sessVars, swVars, gwVars, apiVars, restVars, mockVars>>

Min(a, b) == IF a <= b THEN a ELSE b

\* Optional values: None, told apart from every record the model builds.
None == [none |-> TRUE]

\* {}: a dict without keys
NoKeys == <<>>

\* nx.DiGraph(): no node, no edge.  order lists the nodes as they were
\* added, node maps a node to its attributes, edge a (source, target) pair
\* to the attributes of the edge.
DiGraph == [order |-> <<>>, node |-> NoKeys, edge |-> NoKeys]

\* RedisStore(): self._client = None
RedisStore == [client |-> None, connecting |-> FALSE]

\* PostgresStore(): self._engine = None, self._session_factory = None
PostgresStore ==
    [engine |-> None, session_factory |-> None, connecting |-> FALSE]

\* A piece of honeypot text (an LLM reply, a canned line).
Reply(line) == [text |-> line]

(***************************************************************************)
(* Strings the code takes apart (entities) are sequences of characters.    *)
(***************************************************************************)
UpperLetters ==
    <<"A", "B", "C", "D", "E", "F", "G", "H", "I", "J", "K", "L", "M", "N",
      "O", "P", "Q", "R", "S", "T", "U", "V", "W", "X", "Y", "Z">>

LowerLetters ==
    <<"a", "b", "c", "d", "e", "f", "g", "h", "i", "j", "k", "l", "m", "n",
      "o", "p", "q", "r", "s", "t", "u", "v", "w", "x", "y", "z">>

DigitChars == {"0", "1", "2", "3", "4", "5", "6", "7", "8", "9"}

\* str.lower()
LowerChar(ch) ==
    IF \E i \in 1..26 : UpperLetters[i] = ch
    THEN LowerLetters[CHOOSE i \in 1..26 : UpperLetters[i] = ch]
    ELSE ch

Lower(str) == [i \in 1..Len(str) |-> LowerChar(str[i])]

\* str.upper()
UpperChar(ch) ==
    IF \E i \in 1..26 : LowerLetters[i] = ch
    THEN UpperLetters[CHOOSE i \in 1..26 : LowerLetters[i] = ch]
    ELSE ch

Upper(str) == [i \in 1..Len(str) |-> UpperChar(str[i])]

\* "".join(c for c in s if c.isdigit()), re.sub(r'\D', '', s)
IsDigit(ch) == ch \in DigitChars

DigitsOf(str) == SelectSeq(str, IsDigit)

\* str.isdigit()
IsAllDigits(str) == Len(str) > 0 /\ \A i \in 1..Len(str) : IsDigit(str[i])

\* str.startswith(prefix)
StartsWith(str, prefix) ==
    Len(str) >= Len(prefix) /\ SubSeq(str, 1, Len(prefix)) = prefix

\* s[-n:]
LastN(str, n) ==
    IF Len(str) <= n THEN str ELSE SubSeq(str, Len(str) - n + 1, Len(str))

\* str.rstrip("/")
RECURSIVE RStripSlash(_)
RStripSlash(str) ==
    IF Len(str) > 0 /\ str[Len(str)] = "/"
    THEN RStripSlash(SubSeq(str, 1, Len(str) - 1))
    ELSE str

\* str.split(sep) for a one-character separator
RECURSIVE Split(_, _)
Split(str, sep) ==
    IF \E i \in 1..Len(str) : str[i] = sep
    THEN LET i == CHOOSE k \in 1..Len(str) :
                     str[k] = sep /\ \A j \in 1..(k - 1) : str[j] # sep
         IN  <<SubSeq(str, 1, i - 1)>> \o Split(SubSeq(str, i + 1, Len(str)), sep)
    ELSE <<str>>

\* x in list
InSeq(x, seq) == \E i \in 1..Len(seq) : seq[i] = x

\* [f(x) for x in seq]
MapSeq(F(_), seq) == [i \in 1..Len(seq) |-> F(seq[i])]

(***************************************************************************)
(* Messages.  A scammer message is a sample text: its name, and the number *)
(* of matches the urgency, greed, fear and authority patterns have in it.  *)
(* What the entity patterns and the indicator word lists find in a sample  *)
(* is tabulated below, from the patterns of detection/patterns.py run on   *)
(* the sample's wording.                                                   *)
(***************************************************************************)
ScamTypes == <<"lottery", "upi_fraud", "tech_support", "investment", "romance">>

Text(name, urgency, greed, fear, authority) ==
    [name |-> name, urgency |-> urgency, greed |-> greed, fear |-> fear,
     authority |-> authority]

\* "Hello, is this Mrs Sharma? How are you today?"
Hello == Text("hello", 0, 0, 0, 0)

\* "You have won the lottery! Claim your prize at the lucky draw: pay
\*  processing fee to Winner@YBL or call +91 98765-43210 now"
Prize == Text("prize", 1, 5, 0, 0)

\* "Send to winner@ybl or 9876543210, account 123456789012 IFSC SBIN0001234,
\*  see https://pay.example/claim and mail Help@Pay.Example"
Pay == Text("pay", 0, 1, 0, 0)

\* "Your account is blocked. Police will have you arrested immediately,
\*  act fast, hurry"
Threat == Text("threat", 3, 0, 3, 1)

\* "This is urgent, call me back immediately"
Urgent == Text("urgent", 2, 0, 0, 0)

NoKeywords == [t \in {ScamTypes[i] : i \in 1..Len(ScamTypes)} |-> 0]

\* sum(1 for w in <TYPE>_INDICATORS if w.lower() in text_lower), per type,
\* for the scripted lines
ScriptKeywords(name) ==
    CASE name = "lottery-0" ->
         [NoKeywords EXCEPT !["lottery"] = 2]
      [] name = "lottery-1" ->
         [NoKeywords EXCEPT !["upi_fraud"] = 1]
      [] name = "lottery-2" ->
         [NoKeywords EXCEPT !["lottery"] = 1, !["upi_fraud"] = 1]
      [] name = "lottery-3" ->
         [NoKeywords EXCEPT !["upi_fraud"] = 1]
      [] name = "lottery-5" ->
         [NoKeywords EXCEPT !["upi_fraud"] = 2]
      [] name = "lottery-9" ->
         [NoKeywords EXCEPT !["upi_fraud"] = 1]
      [] name = "upi_fraud-5" ->
         [NoKeywords EXCEPT !["upi_fraud"] = 1]
      [] name = "tech_support-0" ->
         [NoKeywords EXCEPT !["tech_support"] = 3]
      [] name = "tech_support-1" ->
         [NoKeywords EXCEPT !["tech_support"] = 3]
      [] name = "tech_support-3" ->
         [NoKeywords EXCEPT !["tech_support"] = 2]
      [] name = "tech_support-4" ->
         [NoKeywords EXCEPT !["tech_support"] = 2]
      [] name = "tech_support-5" ->
         [NoKeywords EXCEPT !["tech_support"] = 2]
      [] name = "tech_support-7" ->
         [NoKeywords EXCEPT !["upi_fraud"] = 1, !["tech_support"] = 1]
      [] name = "tech_support-8" ->
         [NoKeywords EXCEPT !["romance"] = 1]
      [] OTHER -> NoKeywords

\* sum(1 for w in <TYPE>_INDICATORS if w.lower() in text_lower), per type
IndicatorWords(text) ==
    IF text.name = "prize"
    THEN [NoKeywords EXCEPT !["lottery"] = 4, !["upi_fraud"] = 1]
    ELSE ScriptKeywords(text.name)

NoMatches ==
    [upi |-> <<>>, phones |-> <<>>, accounts |-> <<>>, ifsc |-> <<>>,
     btc |-> <<>>, eth |-> <<>>, urls |-> <<>>, short_urls |-> <<>>,
     emails |-> <<>>]

\* PATTERN.findall(line), per pattern, for the scripted lines
ScriptMatches(name) ==
    CASE name = "lottery-5" ->
         [NoMatches EXCEPT
            !.upi = <<<<"k", "b", "c", "p", "r", "i", "z", "e", "2", "0", "2", "4", "@", "y", "b", "l">>>>]
      [] name = "lottery-6" ->
         [NoMatches EXCEPT
            !.phones = <<<<"9", "8", "7", "6", "5", "4", "3", "2", "1", "0">>>>,
            !.accounts = <<<<"9", "8", "7", "6", "5", "4", "3", "2", "1", "0", "1", "2", "3", "4", "5", "6">>>>,
            !.ifsc = <<<<"S", "B", "I", "N", "0", "0", "0", "1", "2", "3", "4">>>>]
      [] name = "lottery-7" ->
         [NoMatches EXCEPT
            !.phones = <<<<"+", "9", "1", " ", "9", "8", "7", "6", "5", " ", "4", "3", "2", "1", "0">>>>]
      [] name = "lottery-9" ->
         [NoMatches EXCEPT
            !.phones = <<<<"8", "7", "6", "5", "4", "3", "2", "1", "0", "9">>>>,
            !.accounts = <<<<"8", "7", "6", "5", "4", "3", "2", "1", "0", "9">>>>]
      [] name = "upi_fraud-5" ->
         [NoMatches EXCEPT
            !.upi = <<<<"s", "b", "i", "k", "y", "c", ".", "v", "e", "r", "i", "f", "y", "@", "o", "k", "s", "b", "i">>>>]
      [] name = "upi_fraud-7" ->
         [NoMatches EXCEPT
            !.accounts = <<<<"1", "1", "2", "2", "3", "3", "4", "4", "5", "5", "6", "6", "7", "7", "8", "8">>>>,
            !.ifsc = <<<<"S", "B", "I", "N", "0", "0", "0", "0", "1", "2", "3">>>>]
      [] name = "upi_fraud-8" ->
         [NoMatches EXCEPT
            !.phones = <<<<"7", "8", "9", "6", "5", "4", "1", "2", "3", "0">>>>,
            !.accounts = <<<<"7", "8", "9", "6", "5", "4", "1", "2", "3", "0">>>>]
      [] name = "tech_support-7" ->
         [NoMatches EXCEPT
            !.upi = <<<<"m", "i", "c", "r", "o", "s", "o", "f", "t", "s", "e", "c", "u", "r", "i", "t", "y", "@", "p", "a", "y", "t", "m">>>>,
            !.phones = <<<<"6", "6", "7", "7", "8", "8", "9", "9", "0", "0">>>>,
            !.accounts = <<<<"5", "5", "6", "6", "7", "7", "8", "8", "9", "9", "0", "0", "1", "1", "2", "2">>>>,
            !.ifsc = <<<<"I", "C", "I", "C", "0", "0", "0", "0", "4", "5", "6">>>>]
      [] name = "tech_support-9" ->
         [NoMatches EXCEPT
            !.phones = <<<<"+", "9", "1", " ", "9", "9", "8", "8", "7", " ", "7", "6", "6", "5", "5">>>>]
      [] OTHER -> NoMatches

\* PATTERN.findall(text), per pattern, for texts that repeat an entity in
\* another spelling:
\*   repeat:
\*     Pay Winner@YBL or winner@ybl, call 9876543210 or +91 98765-43210,
\*     account 123456789012 and again 123456789012 IFSC sbin0001234
\*   links:
\*     Open https://Pay.Example/Claim/ or https://pay.example/claim or
\*     http://bit.ly/Abc or https://bit.ly/abc/ or bit.ly/ABC or
\*     tinyurl.com/x1, mail Help@Pay.Example or help@pay.example
\*   coins:
\*     Send to 1Ab2Ab2Ab2Ab2Ab2Ab2Ab2Ab2Ab2 or
\*     1Ab2Ab2Ab2Ab2Ab2Ab2Ab2Ab2Ab2 or
\*     0xaBaBaBaBaBaBaBaBaBaBaBaBaBaBaBaBaBaBaBaB or
\*     0xabababababababababababababababababababab
\*   again:
\*     Pay WINNER@ybl, call 98765 43210, account 123456789012 IFSC
\*     HDFC0001234, see https://pay.example/claim/ or
\*     0xABABABABABABABABABABABABABABABABABABABAB
RepeatMatches(name) ==
    CASE name = "repeat" ->
         [NoMatches EXCEPT
            !.upi = <<<<"W", "i", "n", "n", "e", "r", "@", "Y", "B", "L">>,
                   <<"w", "i", "n", "n", "e", "r", "@", "y", "b", "l">>>>,
            !.phones = <<<<"9", "8", "7", "6", "5", "4", "3", "2", "1", "0">>,
                      <<"+", "9", "1", " ", "9", "8", "7", "6", "5", "-", "4", "3", "2", "1", "0">>>>,
            !.accounts = <<<<"9", "8", "7", "6", "5", "4", "3", "2", "1", "0">>,
                        <<"1", "2", "3", "4", "5", "6", "7", "8", "9", "0", "1", "2">>,
                        <<"1", "2", "3", "4", "5", "6", "7", "8", "9", "0", "1", "2">>>>,
            !.ifsc = <<<<"s", "b", "i", "n", "0", "0", "0", "1", "2", "3", "4">>>>]
      [] name = "links" ->
         [NoMatches EXCEPT
            !.upi = <<<<"H", "e", "l", "p", "@", "P", "a", "y">>,
                   <<"h", "e", "l", "p", "@", "p", "a", "y">>>>,
            !.urls = <<<<"h", "t", "t", "p", "s", ":", "/", "/", "P", "a", "y", ".", "E", "x", "a", "m", "p", "l", "e", "/", "C", "l", "a", "i", "m", "/">>,
                    <<"h", "t", "t", "p", "s", ":", "/", "/", "p", "a", "y", ".", "e", "x", "a", "m", "p", "l", "e", "/", "c", "l", "a", "i", "m">>,
                    <<"h", "t", "t", "p", ":", "/", "/", "b", "i", "t", ".", "l", "y", "/", "A", "b", "c">>,
                    <<"h", "t", "t", "p", "s", ":", "/", "/", "b", "i", "t", ".", "l", "y", "/", "a", "b", "c", "/">>>>,
            !.short_urls = <<<<"b", "i", "t", ".", "l", "y", "/", "A", "b", "c">>,
                          <<"b", "i", "t", ".", "l", "y", "/", "a", "b", "c">>,
                          <<"b", "i", "t", ".", "l", "y", "/", "A", "B", "C">>,
                          <<"t", "i", "n", "y", "u", "r", "l", ".", "c", "o", "m", "/", "x", "1">>>>,
            !.emails = <<<<"H", "e", "l", "p", "@", "P", "a", "y", ".", "E", "x", "a", "m", "p", "l", "e">>,
                      <<"h", "e", "l", "p", "@", "p", "a", "y", ".", "e", "x", "a", "m", "p", "l", "e">>>>]
      [] name = "coins" ->
         [NoMatches EXCEPT
            !.btc = <<<<"1", "A", "b", "2", "A", "b", "2", "A", "b", "2", "A", "b", "2", "A", "b", "2", "A", "b", "2", "A", "b", "2", "A", "b", "2", "A", "b", "2">>,
                   <<"1", "A", "b", "2", "A", "b", "2", "A", "b", "2", "A", "b", "2", "A", "b", "2", "A", "b", "2", "A", "b", "2", "A", "b", "2", "A", "b", "2">>>>,
            !.eth = <<<<"0", "x", "a", "B", "a", "B", "a", "B", "a", "B", "a", "B", "a", "B", "a", "B", "a", "B", "a", "B", "a", "B", "a", "B", "a", "B", "a", "B", "a", "B", "a", "B", "a", "B", "a", "B", "a", "B", "a", "B", "a", "B">>,
                   <<"0", "x", "a", "b", "a", "b", "a", "b", "a", "b", "a", "b", "a", "b", "a", "b", "a", "b", "a", "b", "a", "b", "a", "b", "a", "b", "a", "b", "a", "b", "a", "b", "a", "b", "a", "b", "a", "b", "a", "b", "a", "b">>>>]
      [] name = "again" ->
         [NoMatches EXCEPT
            !.upi = <<<<"W", "I", "N", "N", "E", "R", "@", "y", "b", "l">>>>,
            !.phones = <<<<"9", "8", "7", "6", "5", " ", "4", "3", "2", "1", "0">>>>,
            !.accounts = <<<<"1", "2", "3", "4", "5", "6", "7", "8", "9", "0", "1", "2">>>>,
            !.ifsc = <<<<"H", "D", "F", "C", "0", "0", "0", "1", "2", "3", "4">>>>,
            !.eth = <<<<"0", "x", "A", "B", "A", "B", "A", "B", "A", "B", "A", "B", "A", "B", "A", "B", "A", "B", "A", "B", "A", "B", "A", "B", "A", "B", "A", "B", "A", "B", "A", "B", "A", "B", "A", "B", "A", "B", "A", "B", "A", "B">>>>,
            !.urls = <<<<"h", "t", "t", "p", "s", ":", "/", "/", "p", "a", "y", ".", "e", "x", "a", "m", "p", "l", "e", "/", "c", "l", "a", "i", "m", "/">>>>]
      [] OTHER -> NoMatches

\* PATTERN.findall(text), per pattern, for texts that give a mobile number
\* with the +91 prefix, bare, or both:
\*   both-space: "call me at +91 98765 43210 or 9876543210"
\*   both-dot: "call me at +91.98765.43210 or 9876543210"
\*   both-hyphen: "call me at +91-98765-43210 or 9876543210"
\*   both-joined: "call 9876543210, that is +919876543210"
\*   prefixed: "my number is +91 98765 43210"
\*   bare: "my number is 9876543210"
\*   both-second: "dial +91-91987-65432 or 9198765432"
\*   bare-second: "dial 9198765432"
\*   prefixed-third: "whatsapp +91 66778.89900"
\*   bare-third: "whatsapp 6677889900"
PhoneMatches(name) ==
    CASE name = "both-space" ->
         [NoMatches EXCEPT
            !.phones = <<<<"+", "9", "1", " ", "9", "8", "7", "6", "5", " ", "4", "3", "2", "1", "0">>,
                      <<"9", "8", "7", "6", "5", "4", "3", "2", "1", "0">>>>,
            !.accounts = <<<<"9", "8", "7", "6", "5", "4", "3", "2", "1", "0">>>>]
      [] name = "both-dot" ->
         [NoMatches EXCEPT
            !.phones = <<<<"+", "9", "1", ".", "9", "8", "7", "6", "5", ".", "4", "3", "2", "1", "0">>,
                      <<"9", "8", "7", "6", "5", "4", "3", "2", "1", "0">>>>,
            !.accounts = <<<<"9", "8", "7", "6", "5", "4", "3", "2", "1", "0">>>>]
      [] name = "both-hyphen" ->
         [NoMatches EXCEPT
            !.phones = <<<<"+", "9", "1", "-", "9", "8", "7", "6", "5", "-", "4", "3", "2", "1", "0">>,
                      <<"9", "8", "7", "6", "5", "4", "3", "2", "1", "0">>>>,
            !.accounts = <<<<"9", "8", "7", "6", "5", "4", "3", "2", "1", "0">>>>]
      [] name = "both-joined" ->
         [NoMatches EXCEPT
            !.phones = <<<<"9", "8", "7", "6", "5", "4", "3", "2", "1", "0">>,
                      <<"+", "9", "1", "9", "8", "7", "6", "5", "4", "3", "2", "1", "0">>>>,
            !.accounts = <<<<"9", "8", "7", "6", "5", "4", "3", "2", "1", "0">>,
                        <<"9", "1", "9", "8", "7", "6", "5", "4", "3", "2", "1", "0">>>>]
      [] name = "prefixed" ->
         [NoMatches EXCEPT
            !.phones = <<<<"+", "9", "1", " ", "9", "8", "7", "6", "5", " ", "4", "3", "2", "1", "0">>>>]
      [] name = "bare" ->
         [NoMatches EXCEPT
            !.phones = <<<<"9", "8", "7", "6", "5", "4", "3", "2", "1", "0">>>>,
            !.accounts = <<<<"9", "8", "7", "6", "5", "4", "3", "2", "1", "0">>>>]
      [] name = "both-second" ->
         [NoMatches EXCEPT
            !.phones = <<<<"+", "9", "1", "-", "9", "1", "9", "8", "7", "-", "6", "5", "4", "3", "2">>,
                      <<"9", "1", "9", "8", "7", "6", "5", "4", "3", "2">>>>,
            !.accounts = <<<<"9", "1", "9", "8", "7", "6", "5", "4", "3", "2">>>>]
      [] name = "bare-second" ->
         [NoMatches EXCEPT
            !.phones = <<<<"9", "1", "9", "8", "7", "6", "5", "4", "3", "2">>>>,
            !.accounts = <<<<"9", "1", "9", "8", "7", "6", "5", "4", "3", "2">>>>]
      [] name = "prefixed-third" ->
         [NoMatches EXCEPT
            !.phones = <<<<"+", "9", "1", " ", "6", "6", "7", "7", "8", ".", "8", "9", "9", "0", "0">>>>]
      [] name = "bare-third" ->
         [NoMatches EXCEPT
            !.phones = <<<<"6", "6", "7", "7", "8", "8", "9", "9", "0", "0">>>>,
            !.accounts = <<<<"6", "6", "7", "7", "8", "8", "9", "9", "0", "0">>>>]
      [] OTHER -> NoMatches

PhoneTextNames ==
    {"both-space", "both-dot", "both-hyphen", "both-joined",
     "prefixed", "bare", "both-second", "bare-second",
     "prefixed-third", "bare-third"}

\* PATTERN.findall(text), per pattern
Findall(text) ==
    IF text.name = "prize"
    THEN [NoMatches EXCEPT
            !.upi = <<<<"W", "i", "n", "n", "e", "r", "@", "Y", "B", "L">>>>,
            !.phones = <<<<"+", "9", "1", " ", "9", "8", "7", "6", "5", "-", "4", "3", "2", "1", "0">>>>]
    ELSE IF text.name = "pay"
    THEN [NoMatches EXCEPT
            !.upi = <<<<"w", "i", "n", "n", "e", "r", "@", "y", "b", "l">>,
                      <<"H", "e", "l", "p", "@", "P", "a", "y">>>>,
            !.phones = <<<<"9", "8", "7", "6", "5", "4", "3", "2", "1", "0">>>>,
            !.accounts = <<<<"9", "8", "7", "6", "5", "4", "3", "2", "1", "0">>,
                           <<"1", "2", "3", "4", "5", "6", "7", "8", "9", "0", "1", "2">>>>,
            !.ifsc = <<<<"S", "B", "I", "N", "0", "0", "0", "1", "2", "3", "4">>>>,
            !.urls = <<<<"h", "t", "t", "p", "s", ":", "/", "/", "p", "a", "y", ".", "e", "x", "a", "m", "p", "l", "e", "/", "c", "l", "a", "i", "m">>>>,
            !.emails = <<<<"H", "e", "l", "p", "@", "P", "a", "y", ".", "E", "x", "a", "m", "p", "l", "e">>>>]
    ELSE IF text.name \in {"repeat", "links", "coins", "again"}
    THEN RepeatMatches(text.name)
    ELSE IF text.name \in PhoneTextNames
    THEN PhoneMatches(text.name)
    ELSE ScriptMatches(text.name)

\* detect_urgency_level, detect_greed_signals, detect_fear_tactics,
\* detect_authority_impersonation: the number of matches of the pattern.
detect_urgency_level(text) == text.urgency

detect_greed_signals(text) == text.greed

detect_fear_tactics(text) == text.fear

detect_authority_impersonation(text) == text.authority

(***************************************************************************)
(* ExtractedEntities and the Session (models/schemas.py).                  *)
(***************************************************************************)
PATIENCE == "patience"

AGGRESSIVE == "aggressive"

ExtractionMode == {PATIENCE, AGGRESSIVE}

\* ExtractedEntities()
ExtractedEntities ==
    [upi_ids |-> <<>>, phone_numbers |-> <<>>, bank_accounts |-> <<>>,
     crypto_addresses |-> <<>>, urls |-> <<>>, email_addresses |-> <<>>]

BankAccount(account_number, ifsc_code, bank_name) ==
    [account_number |-> account_number, ifsc_code |-> ifsc_code,
     bank_name |-> bank_name]

CryptoAddress(address, currency) == [address |-> address, currency |-> currency]

SeqToSet(seq) == {seq[i] : i \in 1..Len(seq)}

\* list(set(items)): the distinct items, in an order the code does not
\* control -- here one fixed order per set.
ListOfSet(items) ==
    LET distinct == SeqToSet(items)
    IN  CHOOSE seq \in [1..Cardinality(distinct) -> distinct] :
           SeqToSet(seq) = distinct

\* The dict of the deduplicate_* helpers: the first item of each key is
\* kept, in the order the keys were first seen.
RECURSIVE DedupBy(_, _, _)
DedupBy(Key(_), items, kept) ==
    IF items = <<>>
    THEN kept
    ELSE DedupBy(Key, Tail(items),
                 IF \E i \in 1..Len(kept) : Key(kept[i]) = Key(Head(items))
                 THEN kept
                 ELSE Append(kept, Head(items)))

\* normalize_phone
normalize_phone(phone) ==
    LET digits == DigitsOf(phone)
        local == IF Len(digits) > 10 /\ StartsWith(digits, <<"9", "1">>)
                 THEN SubSeq(digits, 3, Len(digits))
                 ELSE digits
    IN  IF Len(local) >= 10 THEN LastN(local, 10) ELSE local

ExactValue(item) == item

AccountNumber(acc) == acc.account_number

Address(addr) == addr.address

deduplicate_phones(phones) == DedupBy(normalize_phone, phones, <<>>)

deduplicate_case_sensitive(items) == DedupBy(ExactValue, items, <<>>)

deduplicate_case_insensitive(items) == DedupBy(Lower, items, <<>>)

deduplicate_bank_accounts(accounts) == DedupBy(AccountNumber, accounts, <<>>)

deduplicate_crypto(addresses) == DedupBy(Address, addresses, <<>>)

\* merge_with_dedup with the URLs of both sides kept as they come
merge_with_urls_appended(self, other) ==
    [upi_ids |-> deduplicate_case_insensitive(self.upi_ids \o other.upi_ids),
     phone_numbers |->
        deduplicate_phones(self.phone_numbers \o other.phone_numbers),
     bank_accounts |->
        deduplicate_bank_accounts(self.bank_accounts \o other.bank_accounts),
     crypto_addresses |->
        deduplicate_crypto(self.crypto_addresses \o other.crypto_addresses),
     urls |-> self.urls \o other.urls,
     email_addresses |->
        deduplicate_case_insensitive(self.email_addresses
                                     \o other.email_addresses)]

\* A merge that keeps the entities of the latest message only.
merge_with_latest(self, other) ==
    [upi_ids |-> deduplicate_case_insensitive(other.upi_ids),
     phone_numbers |-> deduplicate_phones(other.phone_numbers),
     bank_accounts |-> deduplicate_bank_accounts(other.bank_accounts),
     crypto_addresses |-> deduplicate_crypto(other.crypto_addresses),
     urls |-> ListOfSet(other.urls),
     email_addresses |-> deduplicate_case_insensitive(other.email_addresses)]

\* ExtractedEntities.merge_with_dedup
merge_with_dedup(self, other) ==
    [upi_ids |-> deduplicate_case_insensitive(self.upi_ids \o other.upi_ids),
     phone_numbers |->
        deduplicate_phones(self.phone_numbers \o other.phone_numbers),
     bank_accounts |->
        deduplicate_bank_accounts(self.bank_accounts \o other.bank_accounts),
     crypto_addresses |->
        deduplicate_crypto(self.crypto_addresses \o other.crypto_addresses),
     urls |-> ListOfSet(self.urls \o other.urls),
     email_addresses |->
        deduplicate_case_insensitive(self.email_addresses
                                     \o other.email_addresses)]

\* ExtractedEntities.to_list: one display string per entity, here the
\* label with the parts the string is formatted from.
to_list(e) ==
    MapSeq(LAMBDA u : <<"UPI", u>>, e.upi_ids)
    \o MapSeq(LAMBDA ph : <<"Phone", ph>>, e.phone_numbers)
    \o MapSeq(LAMBDA acc : <<"Bank", acc.account_number,
                             IF acc.ifsc_code = None
                             THEN <<"N", "/", "A">> ELSE acc.ifsc_code>>,
              e.bank_accounts)
    \o MapSeq(LAMBDA c : <<"Crypto", SubSeq(c.address, 1, Min(20, Len(c.address)))>>,
              e.crypto_addresses)
    \o MapSeq(LAMBDA u : <<"URL", u>>, e.urls)
    \o MapSeq(LAMBDA m : <<"Email", m>>, e.email_addresses)

(***************************************************************************)
(* EntityExtractor (detection/extractors.py).                              *)
(***************************************************************************)
KNOWN_UPI_HANDLES ==
    {<<"u", "p", "i">>,
     <<"p", "a", "y", "t", "m">>,
     <<"y", "b", "l">>,
     <<"o", "k", "s", "b", "i">>,
     <<"o", "k", "a", "x", "i", "s">>,
     <<"o", "k", "i", "c", "i", "c", "i">>,
     <<"o", "k", "h", "d", "f", "c", "b", "a", "n", "k">>,
     <<"a", "p", "l">>,
     <<"a", "x", "i", "s", "b">>,
     <<"b", "a", "r", "o", "d", "a", "m", "p", "a", "y">>,
     <<"c", "b", "o", "i">>,
     <<"c", "i", "t", "i">>,
     <<"c", "i", "t", "i", "b", "a", "n", "k">>,
     <<"d", "b", "s">>,
     <<"f", "b", "l">>,
     <<"f", "e", "d", "e", "r", "a", "l">>,
     <<"h", "d", "f", "c", "b", "a", "n", "k">>,
     <<"h", "s", "b", "c">>,
     <<"i", "b", "l">>,
     <<"i", "c", "i", "c", "i">>,
     <<"i", "d", "b", "i">>,
     <<"i", "d", "b", "i", "b", "a", "n", "k">>,
     <<"i", "d", "f", "c", "b", "a", "n", "k">>,
     <<"i", "k", "w", "i", "k">>,
     <<"i", "n", "d", "u", "s">>,
     <<"k", "o", "t", "a", "k">>,
     <<"m", "a", "h", "b">>,
     <<"o", "b", "c">>,
     <<"p", "n", "b">>,
     <<"p", "o", "c", "k", "e", "t", "s">>,
     <<"P", "S", "B">>,
     <<"r", "b", "l">>,
     <<"s", "b", "i">>,
     <<"s", "c">>,
     <<"s", "c", "b">>,
     <<"s", "c", "b", "l">>,
     <<"s", "i", "b">>,
     <<"s", "y", "n", "d", "i", "c", "a", "t", "e">>,
     <<"u", "b", "i">>,
     <<"u", "b", "o", "i">>,
     <<"u", "c", "o">>,
     <<"u", "n", "i", "o", "n", "b", "a", "n", "k">>,
     <<"u", "n", "i", "t", "e", "d">>,
     <<"u", "t", "b", "i">>,
     <<"v", "i", "j", "b">>,
     <<"y", "e", "s", "b", "a", "n", "k">>}

BankMap ==
    <<<<<<"S", "B", "I", "N">>, [name |-> "State Bank of India"]>>,
      <<<<"H", "D", "F", "C">>, [name |-> "HDFC Bank"]>>,
      <<<<"I", "C", "I", "C">>, [name |-> "ICICI Bank"]>>,
      <<<<"A", "X", "I", "S">>, [name |-> "Axis Bank"]>>,
      <<<<"K", "K", "B", "K">>, [name |-> "Kotak Mahindra Bank"]>>,
      <<<<"U", "T", "I", "B">>, [name |-> "Axis Bank"]>>,
      <<<<"P", "U", "N", "B">>, [name |-> "Punjab National Bank"]>>,
      <<<<"B", "A", "R", "B">>, [name |-> "Bank of Baroda"]>>,
      <<<<"C", "N", "R", "B">>, [name |-> "Canara Bank"]>>,
      <<<<"U", "B", "I", "N">>, [name |-> "Union Bank of India"]>>,
      <<<<"I", "D", "I", "B">>, [name |-> "IDBI Bank"]>>,
      <<<<"Y", "E", "S", "B">>, [name |-> "Yes Bank"]>>,
      <<<<"I", "N", "D", "B">>, [name |-> "IndusInd Bank"]>>,
      <<<<"F", "D", "R", "L">>, [name |-> "Federal Bank"]>>,
      <<<<"I", "D", "F", "B">>, [name |-> "IDFC First Bank"]>>>>

\* _bank_from_ifsc
bank_from_ifsc(ifsc) ==
    LET prefix == Upper(SubSeq(ifsc, 1, Min(4, Len(ifsc))))
    IN  IF \E i \in 1..Len(BankMap) : BankMap[i][1] = prefix
        THEN BankMap[CHOOSE i \in 1..Len(BankMap) : BankMap[i][1] = prefix][2]
        ELSE None

\* _extract_upi_ids
RECURSIVE extract_upi_ids(_, _)
extract_upi_ids(candidates, valid_upis) ==
    IF candidates = <<>>
    THEN valid_upis
    ELSE LET candidate == Head(candidates)
             parts == Split(candidate, "@")
             keep == /\ Len(parts) = 2
                     /\ \/ Lower(parts[2]) \in KNOWN_UPI_HANDLES
                        \/ IsAllDigits(parts[1])
                     /\ ~InSeq(Lower(candidate), MapSeq(Lower, valid_upis))
         IN  extract_upi_ids(Tail(candidates),
                             IF keep THEN Append(valid_upis, candidate)
                             ELSE valid_upis)

\* the digits of a match with the leading 91 left in place
MobileDigitsWithPrefix(match) == DigitsOf(match)

\* digits = re.sub(r'\D', '', match), without a leading 91 if longer than 10
MobileDigits(match) ==
    LET all == DigitsOf(match)
    IN  IF Len(all) > 10 /\ StartsWith(all, <<"9", "1">>)
        THEN SubSeq(all, 3, Len(all))
        ELSE all

\* _extract_phone_numbers: the matches that are ten-digit mobile numbers,
\* written "+91 XXXXX XXXXX", one per number.
RECURSIVE extract_phone_numbers(_, _, _)
extract_phone_numbers(matches, normalized, seen_normalized) ==
    IF matches = <<>>
    THEN normalized
    ELSE LET digits == MobileDigits(Head(matches))
             keep == /\ Len(digits) = 10
                     /\ digits[1] \in {"6", "7", "8", "9"}
                     /\ digits \notin seen_normalized
             formatted == <<"+", "9", "1", " ">> \o SubSeq(digits, 1, 5)
                          \o <<" ">> \o SubSeq(digits, 6, 10)
         IN  IF keep
             THEN extract_phone_numbers(Tail(matches),
                                        Append(normalized, formatted),
                                        seen_normalized \cup {digits})
             ELSE extract_phone_numbers(Tail(matches), normalized,
                                        seen_normalized)

\* _extract_bank_accounts
RECURSIVE extract_bank_accounts(_, _, _, _)
extract_bank_accounts(account_matches, ifsc_matches, accounts, seen) ==
    IF account_matches = <<>>
    THEN accounts
    ELSE LET acc_num == Head(account_matches)
             skip == \/ acc_num \in seen
                     \/ Len(acc_num) = 10 /\ acc_num[1] \in {"6", "7", "8", "9"}
                     \/ Len(acc_num) < 9
             ifsc == IF ifsc_matches # <<>> THEN Upper(ifsc_matches[1]) ELSE None
             bank_name == IF ifsc # None THEN bank_from_ifsc(ifsc) ELSE None
         IN  IF skip
             THEN extract_bank_accounts(Tail(account_matches), ifsc_matches,
                                        accounts, seen)
             ELSE extract_bank_accounts(Tail(account_matches), ifsc_matches,
                                        Append(accounts,
                                               BankAccount(acc_num, ifsc, bank_name)),
                                        seen \cup {acc_num})

\* _extract_crypto_addresses: Bitcoin matches, then Ethereum matches
RECURSIVE extract_bitcoin(_, _)
extract_bitcoin(matches, addresses) ==
    IF matches = <<>>
    THEN addresses
    ELSE extract_bitcoin(Tail(matches),
                         IF InSeq(Head(matches), MapSeq(Address, addresses))
                         THEN addresses
                         ELSE Append(addresses,
                                     CryptoAddress(Head(matches), "BTC")))

RECURSIVE extract_ethereum(_, _)
extract_ethereum(matches, addresses) ==
    IF matches = <<>>
    THEN addresses
    ELSE extract_ethereum(Tail(matches),
                          IF InSeq(Lower(Head(matches)),
                                   MapSeq(LAMBDA a : Lower(a.address), addresses))
                          THEN addresses
                          ELSE Append(addresses,
                                      CryptoAddress(Head(matches), "ETH")))

extract_crypto_addresses(btc, eth) ==
    extract_ethereum(eth, extract_bitcoin(btc, <<>>))

\* _extract_urls: full URLs, then shortened ones given the https:// prefix
HttpsPrefix == <<"h", "t", "t", "p", "s", ":", "/", "/">>

RECURSIVE extract_full_urls(_, _)
extract_full_urls(matches, urls) ==
    IF matches = <<>>
    THEN urls
    ELSE extract_full_urls(Tail(matches),
                           IF InSeq(RStripSlash(Lower(Head(matches))),
                                    MapSeq(LAMBDA u : RStripSlash(Lower(u)), urls))
                           THEN urls
                           ELSE Append(urls, Head(matches)))

RECURSIVE extract_short_urls(_, _, _)
extract_short_urls(matches, urls, seen) ==
    IF matches = <<>>
    THEN urls
    ELSE LET full_url == HttpsPrefix \o Head(matches)
         IN  IF Lower(full_url) \in seen
             THEN extract_short_urls(Tail(matches), urls, seen)
             ELSE extract_short_urls(Tail(matches), Append(urls, full_url),
                                     seen \cup {Lower(full_url)})

extract_urls(url_matches, short_matches) ==
    LET full == extract_full_urls(url_matches, <<>>)
    IN  extract_short_urls(short_matches, full,
                           {RStripSlash(Lower(full[i])) : i \in 1..Len(full)})

\* _extract_emails
RECURSIVE extract_emails(_, _)
extract_emails(all_emails, valid_emails) ==
    IF all_emails = <<>>
    THEN valid_emails
    ELSE LET email == Head(all_emails)
             domain == IF InSeq("@", email)
                       THEN Lower(Split(email, "@")[2]) ELSE <<>>
             handle == IF InSeq(".", domain) THEN Split(domain, ".")[1] ELSE domain
             keep == /\ handle \notin KNOWN_UPI_HANDLES
                     /\ InSeq(".", domain)
                     /\ ~InSeq(Lower(email), MapSeq(Lower, valid_emails))
         IN  extract_emails(Tail(all_emails),
                            IF keep THEN Append(valid_emails, email)
                            ELSE valid_emails)

\* EntityExtractor.extract_all / extract_entities
extract_all(text) ==
    LET m == Findall(text)
    IN  [upi_ids |-> extract_upi_ids(m.upi, <<>>),
         phone_numbers |-> extract_phone_numbers(m.phones, <<>>, {}),
         bank_accounts |-> extract_bank_accounts(m.accounts, m.ifsc, <<>>, {}),
         crypto_addresses |-> extract_crypto_addresses(m.btc, m.eth),
         urls |-> extract_urls(m.urls, m.short_urls),
         email_addresses |-> extract_emails(m.emails, <<>>)]

\* Session(persona_id=...): the defaults of the model's fields.
Session(persona_id) ==
    [persona_id |-> persona_id,
     current_mode |-> PATIENCE,
     conversation_history |-> <<>>,
     extracted_entities |-> ExtractedEntities,
     scam_classification |-> None,
     turn_count |-> 0,
     urgency_signals |-> 0,
     greed_signals |-> 0]

\* Message(role, content, raw_content, entities_found)
Message(role, content, raw_content, entities) ==
    [role |-> role, content |-> content, raw_content |-> raw_content,
     entities_found |-> entities]

\* add_message counting the scammer's messages only
add_message_counting_scammer(session, role, content, raw_content, entities) ==
    [session EXCEPT
        !.conversation_history =
            Append(@, Message(role, content, raw_content, entities)),
        !.turn_count = IF role = "scammer" THEN @ + 1 ELSE @]

\* Session.add_message
add_message(session, role, content, raw_content, entities) ==
    [session EXCEPT
        !.conversation_history =
            Append(@, Message(role, content, raw_content, entities)),
        !.turn_count = @ + 1]

(***************************************************************************)
(* ModeSwitcher (agent/mode_switcher.py).                                  *)
(***************************************************************************)
\* _should_switch_to_aggressive: (should_switch, reason)
ShouldSwitchNoFloor(turns, urgency, greed, fear) ==
    IF turns >= MAX_PATIENCE_TURNS
    THEN <<TRUE, "Maximum patience turns reached">>
    ELSE IF urgency >= URGENCY_THRESHOLD
    THEN <<TRUE, "High urgency detected">>
    ELSE IF greed >= GREED_THRESHOLD
    THEN <<TRUE, "Greed indicators high">>
    ELSE IF fear >= FEAR_THRESHOLD
    THEN <<TRUE, "Fear tactics detected">>
    ELSE <<FALSE, "Continuing patience mode">>

should_switch_to_aggressive(turns, urgency, greed, fear) ==
    IF turns < MIN_TURNS_FOR_AGGRESSIVE
    THEN <<FALSE, "Building rapport (early turns)">>
    ELSE IF turns >= MAX_PATIENCE_TURNS
    THEN <<TRUE, "Maximum patience turns reached">>
    ELSE IF urgency >= URGENCY_THRESHOLD
    THEN <<TRUE, "High urgency detected">>
    ELSE IF greed >= GREED_THRESHOLD
    THEN <<TRUE, "Greed indicators high">>
    ELSE IF fear >= FEAR_THRESHOLD
    THEN <<TRUE, "Fear tactics detected">>
    ELSE <<FALSE, "Continuing patience mode">>

ModeSwitchSignal(should_switch, new_mode, reason, urgency, greed, turns) ==
    [should_switch |-> should_switch, new_mode |-> new_mode, reason |-> reason,
     urgency_score |-> urgency, greed_score |-> greed, turn_count |-> turns]

\* ModeSwitcher.analyze: the session with its counters raised, and the signal.
AnalyzeTwoWay(session, text) ==
    LET s1 == [session EXCEPT
                 !.urgency_signals = @ + detect_urgency_level(text),
                 !.greed_signals = @ + detect_greed_signals(text)]
        d == should_switch_to_aggressive(s1.turn_count, s1.urgency_signals,
                                         s1.greed_signals,
                                         detect_fear_tactics(text))
    IN  [session |-> s1,
         signal |->
            IF session.current_mode = PATIENCE /\ d[1]
            THEN ModeSwitchSignal(TRUE, AGGRESSIVE, d[2], s1.urgency_signals,
                                  s1.greed_signals, s1.turn_count)
            ELSE IF session.current_mode = AGGRESSIVE /\ ~d[1]
            THEN ModeSwitchSignal(TRUE, PATIENCE, "Scammer calmed down",
                                  s1.urgency_signals, s1.greed_signals,
                                  s1.turn_count)
            ELSE ModeSwitchSignal(FALSE, session.current_mode,
                                  "Maintaining current mode",
                                  s1.urgency_signals, s1.greed_signals,
                                  s1.turn_count)]

\* analyze with the counters raised only while the mode is PATIENCE
analyze_counting_in_patience(session, text) ==
    LET s1 == IF session.current_mode = PATIENCE
              THEN [session EXCEPT
                      !.urgency_signals = @ + detect_urgency_level(text),
                      !.greed_signals = @ + detect_greed_signals(text)]
              ELSE session
        d == should_switch_to_aggressive(s1.turn_count, s1.urgency_signals,
                                         s1.greed_signals,
                                         detect_fear_tactics(text))
    IN  [session |-> s1,
         signal |->
            IF session.current_mode = PATIENCE /\ d[1]
            THEN ModeSwitchSignal(TRUE, AGGRESSIVE, d[2], s1.urgency_signals,
                                  s1.greed_signals, s1.turn_count)
            ELSE ModeSwitchSignal(FALSE, session.current_mode,
                                  "Maintaining current mode",
                                  s1.urgency_signals, s1.greed_signals,
                                  s1.turn_count)]

analyze(session, text) ==
    LET s1 == [session EXCEPT
                 !.urgency_signals = @ + detect_urgency_level(text),
                 !.greed_signals = @ + detect_greed_signals(text)]
        d == should_switch_to_aggressive(s1.turn_count, s1.urgency_signals,
                                         s1.greed_signals,
                                         detect_fear_tactics(text))
    IN  [session |-> s1,
         signal |->
            IF session.current_mode = PATIENCE /\ d[1]
            THEN ModeSwitchSignal(TRUE, AGGRESSIVE, d[2], s1.urgency_signals,
                                  s1.greed_signals, s1.turn_count)
            ELSE ModeSwitchSignal(FALSE, session.current_mode,
                                  "Maintaining current mode",
                                  s1.urgency_signals, s1.greed_signals,
                                  s1.turn_count)]

\* analyze_and_switch returning the signal with the mode left as it is
analyze_and_signal(session, text) == analyze(session, text)

\* analyze_and_switch: analyze, then set the mode the signal asks for.
analyze_and_switch(session, text) ==
    LET r == analyze(session, text)
    IN  [session |-> IF r.signal.should_switch
                     THEN [r.session EXCEPT !.current_mode = r.signal.new_mode]
                     ELSE r.session,
         signal |-> r.signal]

\* ModeSwitcher.force_switch: the session with the mode set.
force_switch(session, mode) == [session EXCEPT !.current_mode = mode]

(***************************************************************************)
(* TokenBucketRateLimiter (config.py).  tokens is a float in the code; it  *)
(* is kept here as an integer number of units, UnitsPerToken to the token, *)
(* the unit being what one tick of time refills at 1 token per minute.     *)
(***************************************************************************)
UnitsPerToken == SecondsPerMinute * TicksPerSecond

\* The two call sites of acquire(): GeminiClient.generate and
\* GeminiClient.classify_with_structured_output, each of any session.
Callers == {"generate", "classify_with_structured_output"}

Timeouts == 0..MaxTimeout

Idle == [pc |-> "idle", start |-> 0, timeout |-> 0, wake |-> 0, ret |-> "none"]

\* _refill(), as the pair (tokens, last_refill) it leaves:
\* tokens = min(max_tokens, tokens + elapsed * refill_rate); last_refill = now
RefillNoCap(tok, last, t) ==
    [tokens |-> tok + (t - last) * max_tokens, last_refill |-> t]

RefillFast(tok, last, t) ==
    [tokens |-> Min(max_tokens * UnitsPerToken, tok + (t - last) * max_tokens * 2),
     last_refill |-> t]

RefillStale(tok, last, t) ==
    [tokens |-> Min(max_tokens * UnitsPerToken, tok + (t - last) * max_tokens),
     last_refill |-> last]

Refill(tok, last, t) ==
    [tokens |-> Min(max_tokens * UnitsPerToken, tok + (t - last) * max_tokens),
     last_refill |-> t]

\* One pass of acquire()'s while loop, from the lock to the sleep or return.
\* The with-block holds no suspension point, so the pass is one step.
Iteration(c, start, timeout) ==
    LET r == Refill(tokens, last_refill, now)
    IN  /\ last_refill' = r.last_refill
        /\ IF r.tokens >= UnitsPerToken
           THEN /\ tokens' = r.tokens - UnitsPerToken
                /\ granted' = granted + 1
                /\ acq' = [acq EXCEPT ![c] = [Idle EXCEPT !.ret = "true"]]
           ELSE /\ tokens' = r.tokens
                /\ granted' = granted
                /\ IF now - start > timeout
                   THEN acq' = [acq EXCEPT ![c] = [Idle EXCEPT !.ret = "false"]]
                   ELSE acq' = [acq EXCEPT ![c] =
                                  [pc |-> "sleep", start |-> start,
                                   timeout |-> timeout, wake |-> now + 1,
                                   ret |-> "none"]]

\* acquire(timeout): start = time(), then the first pass of the loop.
Acquire(c) ==
    /\ acq[c].pc = "idle"
    /\ \E timeout \in Timeouts :
          /\ now + timeout + 2 <= MaxTime
          /\ Iteration(c, now, timeout)
    /\ UNCHANGED <<now, max_tokens, notBucket>>

\* asyncio.sleep(0.5) is over: the next pass of the loop.
Wake(c) ==
    /\ acq[c].pc = "sleep"
    /\ now >= acq[c].wake
    /\ Iteration(c, acq[c].start, acq[c].timeout)
    /\ UNCHANGED <<now, max_tokens, notBucket>>

\* available_tokens: _refill() outside the lock, then int(tokens).
AvailableTokens ==
    /\ tokens' = Refill(tokens, last_refill, now).tokens
    /\ last_refill' = Refill(tokens, last_refill, now).last_refill
    /\ UNCHANGED <<now, max_tokens, acq, granted, notBucket>>

\* Time passes.
Tick ==
    /\ now < MaxTime
    /\ now' = now + 1
    /\ UNCHANGED <<max_tokens, tokens, last_refill, acq, granted, notBucket>>

\* TokenBucketRateLimiter.__init__
NewBucket ==
    /\ now = 0
    /\ max_tokens = TokensPerMinute
    /\ tokens = TokensPerMinute * UnitsPerToken
    /\ last_refill = 0
    /\ acq = [c \in Callers |-> Idle]
    /\ granted = 0

\* The parts of the model a specification does not exercise stay as built.
ParkedBucket == NewBucket

ParkedSession == sess = <<>> /\ switch_history = <<>>

ParkedSwitch == sw_ret = None /\ sw_msg = None /\ sw_ops = 0

\* The /ws/honeypot connections a client may open.
Conns == {1, 2}

\* Session ids are 1, 2, ... in the order the sessions are created; NoId
\* stands for a missing one.
NoId == 0

\* A connection not opened, or one whose handler has returned.
NoConn == [pc |-> "closed", session |-> NoId, msg |-> None, signal |-> None]

ParkedGateway ==
    /\ active_sessions = {}
    /\ session_agents = {}
    /\ conn = [c \in Conns |-> NoConn]
    /\ ws_sent = [c \in Conns |-> <<>>]
    /\ frames_in = 0
    /\ classify_calls = 0

(***************************************************************************)
(* POST /api/honeypot (main.py): verify_api_key, then the handler.  A      *)
(* request is served in run-to-suspension segments like a websocket turn.  *)
(***************************************************************************)
\* Requests the server may be serving at the same time.
ApiReqs == {1, 2}

\* HONEYPOT_API_KEY in the environment: not set, or set.
ExpectedKeys == {"", "secret"}

\* The x-api-key headers of a request: none, an empty one, the configured
\* key, another key.
ApiKeys == {<<>>, <<"">>, <<"secret">>, <<"guess">>}

\* A sessionId: its text, len(session_id), and whether what is left of it
\* after replace("-", "") is 32 hexadecimal digits.
SessionId(text, length, is_hex) ==
    [text |-> text, length |-> length, is_hex |-> is_hex]

\* "chat-1"
ShortId == SessionId("chat-1", 6, FALSE)

\* "123e4567-e89b-12d3-a456-426614174000"
UuidId == SessionId("123e4567-e89b-12d3-a456-426614174000", 36, TRUE)

\* "session-for-the-evaluation-run-00001"
LongId == SessionId("session-for-the-evaluation-run-00001", 36, FALSE)

ApiSessionIds == {ShortId, UuidId, LongId}

ApiTexts == {Hello, Prize}

\* HoneypotRequest(sessionId, message)
HoneypotRequest(sessionId, text) ==
    [sessionId |-> sessionId, message |-> [sender |-> "scammer", text |-> text]]

ApiRequests ==
    {HoneypotRequest(id, text) : id \in ApiSessionIds, text \in ApiTexts}

\* HoneypotResponse(status="success", reply=...)
HoneypotResponse(reply) == [status |-> "success", reply |-> reply]

\* What the client is answered: the status code and the JSON body.
Response(status_code, content) ==
    [status_code |-> status_code, content |-> content]

InternalServerError == Response(500, [detail |-> "Internal Server Error"])

\* voice_sessions has no entry under the key
NoEntry == [entry |-> FALSE]

\* A request slot not in use; the locals of a request being served.
NoCall ==
    [pc |-> "idle", x_api_key |-> <<>>, request |-> None, session |-> NoId,
     analysis |-> None, signal |-> None, response |-> None]

\* voice_sessions = {}, no request yet, no callback scheduled
NewApi ==
    /\ voice_sessions = [id \in ApiSessionIds |-> NoEntry]
    /\ api = [r \in ApiReqs |-> NoCall]
    /\ api_in = 0
    /\ callbacks = <<>>
    /\ callbacks_run = 0

ParkedApi == expected_key = "" /\ NewApi

\* No session request served yet, the application up.
ParkedRest == rest = None /\ rest_in = 0 /\ serving = TRUE

\* No mock scammer created, no handler driving one.
ParkedMock ==
    scammer = None /\ mock_call = None /\ mock_log = <<>> /\ mock_ws = None

\* No library object made and no library call yet; the threat graph is the
\* module's singleton, built when intel.threat_graph is imported.
ParkedLib ==
    /\ lib_detector = None /\ lib_analysis = None
    /\ threat_graph = DiGraph /\ graph_recorded = NoKeys
    /\ redis_store = RedisStore /\ postgres_store = PostgresStore
    /\ lib_classifier = None
    /\ lib_call = None

ParkedEndpoints == ParkedApi /\ ParkedRest /\ ParkedMock /\ ParkedLib

InitBucket ==
    /\ NewBucket /\ ParkedSession /\ ParkedSwitch /\ ParkedGateway
    /\ ParkedEndpoints

NextBucket ==
    \/ \E c \in Callers : Acquire(c)
    \/ \E c \in Callers : Wake(c)
    \/ AvailableTokens
    \/ Tick

SpecBucket == InitBucket /\ [][NextBucket]_vars

\* The event loop resumes a sleeper whose delay is over, and time passes.
SpecBucketFair ==
    /\ SpecBucket
    /\ WF_vars(Tick)
    /\ \A c \in Callers : WF_vars(Wake(c))

Capacity == max_tokens * UnitsPerToken

(***************************************************************************)
(* C5: in every reachable state 0 <= tokens <= capacity, and a step that   *)
(* grants a token takes exactly one whole token off the refilled amount,   *)
(* which held at least one whole token.                                    *)
(***************************************************************************)
C5_TokensWithinCapacity ==
    /\ [](0 <= tokens /\ tokens <= Capacity)
    /\ [][granted' = granted + 1 =>
            LET have == Min(Capacity, tokens + (now - last_refill) * max_tokens)
            IN  have >= UnitsPerToken /\ tokens' = have - UnitsPerToken]_vars
    /\ [][granted' = granted => tokens' >= tokens /\ tokens' <= Capacity]_vars

\* A token was granted and a later refill, of more than the token taken,
\* brought the bucket back to exactly its capacity.
C5_Witness ==
    granted = 1 /\ tokens = Capacity /\ last_refill >= 3

(***************************************************************************)
(* C6: from a full bucket at time 0 the first N acquire calls return true  *)
(* without waiting; a further grant needs the time that refills one token; *)
(* false is returned only after the timeout has elapsed; and every call    *)
(* that waits does return.                                                 *)
(***************************************************************************)
C6_AcquireBounded ==
    /\ []((now = 0 /\ granted < max_tokens) =>
            \A c \in Callers : acq[c].pc = "idle" /\ acq[c].ret # "false")
    /\ [](granted > max_tokens => now * max_tokens >= UnitsPerToken)
    /\ [][\A c \in Callers :
            (acq'[c].ret = "false" /\ acq[c].ret # "false") =>
                (acq[c].pc = "sleep" /\ now - acq[c].start > acq[c].timeout)]_vars
    /\ \A c \in Callers : (acq[c].pc = "sleep") ~> (acq[c].pc = "idle")

\* The bucket was drained at time 0, one caller then waited and got the
\* refilled token, another ran into its timeout.
C6_Witness ==
    /\ granted = max_tokens + 1
    /\ \E c, d \in Callers : acq[c].ret = "true" /\ acq[d].ret = "false"

(***************************************************************************)
(* C7: with concurrent callers the number of acquire calls that returned   *)
(* true never exceeds the initial capacity plus the tokens refilled since. *)
(***************************************************************************)
C7_NoTokenGrantedTwice ==
    granted * UnitsPerToken <= Capacity + now * max_tokens

\* Two callers wait for the same refilled token: one has it, the other
\* still sleeps, and the bound is met with equality.
C7_Witness ==
    /\ granted * UnitsPerToken = Capacity + now * max_tokens
    /\ granted > max_tokens
    /\ \E c, d \in Callers : acq[c].ret = "true" /\ acq[d].pc = "sleep"

(***************************************************************************)
(* The mode switcher called directly on a session: analyze_and_switch and  *)
(* force_switch, on a session in any state a conversation can leave it in. *)
(***************************************************************************)
Personas == {"elderly_widow", "young_professional", "small_business_owner"}

SignalText(u, g, f) == Text("signals", u, g, f, 0)

SignalTexts ==
    {SignalText(u, g, f) : u \in 0..MaxSig, g \in 0..MaxSig, f \in 0..MaxSig}

\* The i-th entry of the transcript of a conversation already under way.
EarlierMessage(i) ==
    IF i % 2 = 1
    THEN Message("scammer", Reply("earlier message"), None, <<>>)
    ELSE Message("honeypot", Reply("earlier reply"), Reply("earlier reply"), <<>>)

\* A session in PATIENCE after turns whose messages carried the given counts.
SessionUnderWay(turns, urgency, greed) ==
    [Session("elderly_widow") EXCEPT
        !.conversation_history = [i \in 1..turns |-> EarlierMessage(i)],
        !.turn_count = turns,
        !.urgency_signals = urgency,
        !.greed_signals = greed]

Reasons == {"operator override"}

\* signal = analyze_and_switch(session, message)
AnalyzeAndSwitch(text) ==
    /\ sw_ops < MaxOps
    /\ LET r == analyze_and_switch(sess[1], text)
       IN  /\ sess' = [sess EXCEPT ![1] = r.session]
           /\ sw_ret' = r.signal
    /\ sw_msg' = text
    /\ sw_ops' = sw_ops + 1
    /\ UNCHANGED <<switch_history, notSwitch>>

\* mode_switcher.force_switch(session, mode, reason)
ForceSwitch(mode, reason) ==
    /\ sw_ops < MaxOps
    /\ sess' = [sess EXCEPT ![1] = force_switch(sess[1], mode)]
    /\ switch_history' =
          Append(switch_history, <<sess[1].turn_count, mode, reason>>)
    /\ sw_ops' = sw_ops + 1
    /\ UNCHANGED <<sw_ret, sw_msg, notSwitch>>

InitSwitch ==
    /\ \E t \in 0..MaxTurnCount, u \in 0..MaxPrior, g \in 0..MaxPrior :
          /\ (t = 0 => u = 0 /\ g = 0)
          /\ sess = <<SessionUnderWay(t, u, g)>>
    /\ switch_history = <<>>
    /\ ParkedSwitch
    /\ ParkedBucket
    /\ ParkedGateway
    /\ ParkedEndpoints

NextSwitch ==
    \/ \E text \in SignalTexts : AnalyzeAndSwitch(text)
    \/ \E mode \in ExtractionMode, reason \in Reasons : ForceSwitch(mode, reason)

SpecSwitch == InitSwitch /\ [][NextSwitch]_vars

(***************************************************************************)
(* C3: called on a session in PATIENCE, analyze_and_switch sets the mode   *)
(* to AGGRESSIVE exactly when t >= 4 and (t >= 12 or u >= 3 or g >= 2 or   *)
(* f >= 2), and leaves it PATIENCE otherwise; t is the session's turn      *)
(* count, u and g the cumulative urgency and greed counts with the current *)
(* message's counts added, f the current message's fear count.  At t = 3   *)
(* with u = 5 the mode stays PATIENCE, at t = 12 with no signal at all it  *)
(* becomes AGGRESSIVE.                                                     *)
(***************************************************************************)
C3_SwitchExactlyWhen ==
    [][(sw_ops' = sw_ops + 1 /\ switch_history' = switch_history
        /\ sess[1].current_mode = PATIENCE) =>
          LET t == sess[1].turn_count
              u == sess[1].urgency_signals + detect_urgency_level(sw_msg')
              g == sess[1].greed_signals + detect_greed_signals(sw_msg')
              f == detect_fear_tactics(sw_msg')
              due == /\ t >= 4
                     /\ (t >= 12 \/ u >= 3 \/ g >= 2 \/ f >= 2)
          IN  /\ sess'[1].current_mode = (IF due THEN AGGRESSIVE ELSE PATIENCE)
              /\ sw_ret'.should_switch = due
              /\ sess'[1].urgency_signals = u
              /\ sess'[1].greed_signals = g
              /\ sess'[1].turn_count = t
              /\ (t = 3 /\ u = 5 => sess'[1].current_mode = PATIENCE)
              /\ (t = 12 /\ u = 0 /\ g = 0 /\ f = 0 =>
                     sess'[1].current_mode = AGGRESSIVE)]_vars

\* The twelfth turn has switched a session that never showed a signal.
C3_Witness ==
    /\ sw_ops = 1
    /\ switch_history = <<>>
    /\ sw_ret.turn_count = 12
    /\ sw_ret.urgency_score = 0 /\ sw_ret.greed_score = 0
    /\ detect_fear_tactics(sw_msg) = 0
    /\ sw_ret.should_switch /\ sw_ret.new_mode = AGGRESSIVE
    /\ sess[1].current_mode = AGGRESSIVE

\* The turn floor has held back a session with five urgency signals.
C3_FloorCase ==
    /\ sw_ret # None
    /\ sw_ret.turn_count = 3 /\ sw_ret.urgency_score = 5
    /\ ~sw_ret.should_switch
    /\ sess[1].current_mode = PATIENCE

(***************************************************************************)
(* C4 as stated: a session whose mode is AGGRESSIVE is AGGRESSIVE after    *)
(* every step, force_switch included.                                      *)
(***************************************************************************)
C4_AggressiveTerminal ==
    [][sess[1].current_mode = AGGRESSIVE =>
          sess'[1].current_mode = AGGRESSIVE]_vars

(***************************************************************************)
(* C4, amended: a session whose mode is AGGRESSIVE stays AGGRESSIVE under  *)
(* every analyze_and_switch, whatever the message; force_switch alone sets *)
(* the mode it is given, PATIENCE included, and records (turn_count, mode, *)
(* reason) at the end of switch_history.                                   *)
(***************************************************************************)
C4_AggressiveTerminalUnderTurns ==
    /\ [][(switch_history' = switch_history
           /\ sess[1].current_mode = AGGRESSIVE) =>
             (sess'[1].current_mode = AGGRESSIVE /\ ~sw_ret'.should_switch)]_vars
    /\ [][switch_history' # switch_history =>
             /\ sess'[1].current_mode \in ExtractionMode
             /\ switch_history' =
                   Append(switch_history,
                          <<sess[1].turn_count, sess'[1].current_mode,
                            "operator override">>)]_vars

\* analyze_and_switch has run on a session it had made AGGRESSIVE, with a
\* message carrying no signal and before the twelfth turn.
C4_Witness ==
    /\ sw_ops = 2
    /\ switch_history = <<>>
    /\ sess[1].current_mode = AGGRESSIVE
    /\ ~sw_ret.should_switch /\ sw_ret.new_mode = AGGRESSIVE
    /\ sw_ret.turn_count < MAX_PATIENCE_TURNS
    /\ sw_ret.urgency_score < URGENCY_THRESHOLD
    /\ sw_ret.greed_score < GREED_THRESHOLD
    /\ detect_fear_tactics(sw_msg) = 0

\* The override has set a session back from AGGRESSIVE to PATIENCE.
C4_ForcedBack ==
    /\ Len(switch_history) = 1
    /\ switch_history[1][2] = PATIENCE
    /\ sw_ret # None /\ sw_ret.new_mode = AGGRESSIVE
    /\ sess[1].current_mode = PATIENCE

(***************************************************************************)
(* ScamClassifier (detection/classifier.py).  Confidences are in percent.  *)
(***************************************************************************)
ScamClassification(scam_type, confidence, indicators) ==
    [scam_type |-> scam_type, confidence |-> confidence,
     indicators |-> indicators]

\* quick_scam_indicators
quick_scam_indicators(text) ==
    LET kw == IndicatorWords(text)
        Tag(cond, name) == IF cond THEN <<name>> ELSE <<>>
    IN  Tag(kw["lottery"] > 0, "lottery_scam_language")
        \o Tag(kw["upi_fraud"] > 0, "upi_fraud_language")
        \o Tag(kw["tech_support"] > 0, "tech_support_language")
        \o Tag(kw["investment"] > 0, "investment_scam_language")
        \o Tag(kw["romance"] > 0, "romance_scam_language")
        \o Tag(detect_urgency_level(text) >= 2, "high_urgency")
        \o Tag(detect_greed_signals(text) >= 2, "greed_exploitation")
        \o Tag(detect_fear_tactics(text) >= 1, "fear_tactics")
        \o Tag(detect_authority_impersonation(text) >= 1,
               "authority_impersonation")

\* _regex_classify
regex_classify(text) ==
    LET indicators == quick_scam_indicators(text)
        scores == IndicatorWords(text)
        max_score == CHOOSE m \in {scores[ScamTypes[i]] : i \in 1..Len(ScamTypes)} :
                        \A i \in 1..Len(ScamTypes) : scores[ScamTypes[i]] <= m
        \* max(scores, key=scores.get): the first type with the highest score
        first == CHOOSE i \in 1..Len(ScamTypes) :
                    /\ scores[ScamTypes[i]] = max_score
                    /\ \A j \in 1..(i - 1) : scores[ScamTypes[j]] < max_score
        base == Min(30 + max_score * 15, 90)
        confidence == IF Len(indicators) >= 3 THEN Min(base + 10, 95) ELSE base
    IN  IF max_score = 0
        THEN ScamClassification("unknown", 0, indicators)
        ELSE ScamClassification(ScamTypes[first], confidence, indicators)

\* What classify_with_structured_output comes back with: a text holding a
\* JSON object, a text holding none, or an exception.
LLMJson(scam_type, confidence, indicators) ==
    [kind |-> "json", scam_type |-> scam_type, confidence |-> confidence,
     indicators |-> indicators]

LLMNoJson == [kind |-> "no_json"]

LLMFailed(error) == [kind |-> "raise", error |-> error]

RateLimitExceeded == LLMFailed("RateLimitExceeded")

LLMError == LLMFailed("LLMError")

ClassifyOutcomes ==
    {LLMJson("upi_fraud", 85, <<"asks for a payment">>), LLMNoJson,
     RateLimitExceeded, LLMError}

\* _parse_llm_response
parse_llm_response(response) ==
    IF response.kind = "json"
    THEN ScamClassification(
            IF InSeq(response.scam_type, ScamTypes) THEN response.scam_type
            ELSE "unknown",
            Min(IF response.confidence < 0 THEN 0 ELSE response.confidence, 100),
            response.indicators)
    ELSE ScamClassification("unknown", 30, <<"llm_parse_error">>)

\* list(set(llm_result.indicators + regex_result.indicators)), in the order
\* of first occurrence
MergeIndicators(llm, regex) == DedupBy(ExactValue, llm \o regex, <<>>)

\* A merge that prefers the model's result at equal confidence too.
classify_with_llm_at_equal(text, outcome) ==
    LET regex_result == regex_classify(text)
        llm_result == parse_llm_response(outcome)
    IN  IF outcome.kind # "raise"
           /\ llm_result.confidence >= regex_result.confidence
        THEN [llm_result EXCEPT
                 !.indicators = MergeIndicators(@, regex_result.indicators)]
        ELSE regex_result

\* ScamClassifier.classify past the regex pre-filter: the LLM has answered.
classify_with_llm(text, outcome) ==
    LET regex_result == regex_classify(text)
        llm_result == parse_llm_response(outcome)
    IN  IF outcome.kind # "raise" /\ llm_result.confidence > regex_result.confidence
        THEN [llm_result EXCEPT
                 !.indicators = MergeIndicators(@, regex_result.indicators)]
        ELSE regex_result

\* "if regex_result.confidence >= 0.8: return regex_result"
ClearRegexMatch(text) == regex_classify(text).confidence >= 80

(***************************************************************************)
(* ConversationAgent (agent/conversation.py).  process_scammer_message is  *)
(* suspended twice at most, in classify_scam and in _generate_response;    *)
(* the operators below are its three uninterrupted stretches.              *)
(***************************************************************************)
FALLBACK_RESPONSES ==
    [elderly_widow |->
        [patience |->
            <<Reply("Oh my... I need to think about this beta..."),
              Reply("Let me understand... you said I won money?"),
              Reply("Arre, this is confusing for me..."),
              Reply("My Ramesh used to handle these things...")>>,
         aggressive |->
            <<Reply("Okay beta, I am ready. What is your account number?"),
              Reply("Tell me your UPI ID, I will send money."),
              Reply("Give me your details, my neighbor will help.")>>],
     young_professional |->
        [patience |->
            <<Reply("Interesting... can you share more details?"),
              Reply("I'm a bit busy rn, but tell me more."),
              Reply("What's the verification process for this?")>>,
         aggressive |->
            <<Reply("Okay sounds good, share your UPI."),
              Reply("What account should I transfer to?"),
              Reply("Send me your number, let's do this.")>>],
     small_business_owner |->
        [patience |->
            <<Reply("I've heard of frauds like this..."),
              Reply("How do I know this is genuine?"),
              Reply("My business is struggling, I need to be careful...")>>,
         aggressive |->
            <<Reply("Okay bhai, I'm ready. Give me the details."),
              Reply("I need this money urgently. What's your UPI?"),
              Reply("Share your account number, I'll transfer now.")>>]]

\* The lines of the mode the session was created in, whatever its mode now.
FallbackLinesOfPatience(session) ==
    FALLBACK_RESPONSES[session.persona_id][PATIENCE]

\* _get_fallback_response: the lines random.choice draws from
FallbackLines(session) ==
    LET persona_fallbacks ==
            IF session.persona_id \in DOMAIN FALLBACK_RESPONSES
            THEN FALLBACK_RESPONSES[session.persona_id]
            ELSE FALLBACK_RESPONSES["elderly_widow"]
    IN  IF session.current_mode \in DOMAIN persona_fallbacks
        THEN persona_fallbacks[session.current_mode]
        ELSE persona_fallbacks[PATIENCE]

\* What generate() comes back with: the model's text, or an exception.
LLMText(text, quoted) == [kind |-> "text", text |-> text, quoted |-> quoted]

GenerateOutcomes ==
    {LLMText("Oh, tell me more about it", TRUE), RateLimitExceeded, LLMError}

\* response.strip().strip('"').strip("'")
CleanResponse(response) == Reply(response.text)

\* ResponseHumanizer.humanize: the text with the hesitation marker and the
\* typo the humanizer draws at random; the model keeps which text it was.
humanize(raw) == [humanized |-> raw.text]

\* TurnBegin of an agent that classifies every message anew.
TurnBeginUnclassified(session, text) ==
    [session EXCEPT
        !.extracted_entities = merge_with_dedup(@, extract_all(text)),
        !.scam_classification = None]

\* Steps 1 and 2 up to the call of classify_scam.
TurnBegin(session, text) ==
    [session EXCEPT
        !.extracted_entities = merge_with_dedup(@, extract_all(text))]

\* Steps 3 and 4: analyze_and_switch, then the scammer's entry.
TurnEvaluate(session, text) ==
    LET r == analyze_and_switch(session, text)
    IN  [session |-> add_message(r.session, "scammer", text, None,
                                 to_list(extract_all(text))),
         signal |-> r.signal]

\* Steps 6 and 7 without the honeypot's entry.
TurnReplyUnrecorded(session, raw_response) == session

\* Steps 6 and 7: humanize, then the honeypot's entry.
TurnReply(session, raw_response) ==
    add_message(session, "honeypot", humanize(raw_response),
                raw_response, <<>>)

(***************************************************************************)
(* The gateway's /ws/honeypot/{persona_id} handler (main.py).  The model   *)
(* stops a handler where the LLM call is in flight -- asyncio.to_thread,   *)
(* or the limiter's sleep -- and nowhere else: a call that fails at once   *)
(* is the suspended call resumed before anything else ran.                 *)
(***************************************************************************)
PersonaInputs == Personas \cup {"nobody"}

\* WSIncomingMessage(**data), and data it rejects
ScammerMessage(content) ==
    [type |-> "scammer_message", content |-> content, session_id |-> NoId]

ResumeSession(session_id) ==
    [type |-> "resume_session", content |-> None, session_id |-> session_id]

InvalidFrame == [type |-> "no_such_type", content |-> None, session_id |-> NoId]

WSMessageType ==
    {"scammer_message", "honeypot_response", "status_update",
     "session_complete", "error", "resume_session"}

Send(c, frames) == ws_sent' = [ws_sent EXCEPT ![c] = @ \o frames]

\* The frames of a turn, the honeypot's response sent first.
TurnFramesResponseFirst(signal, response, mode, entities) ==
    <<[type |-> "honeypot_response", content |-> response, mode |-> mode,
       entities_extracted |-> entities]>>
    \o (IF signal.should_switch
        THEN <<[type |-> "status_update", mode_switched |-> TRUE,
                new_mode |-> signal.new_mode, reason |-> signal.reason]>>
        ELSE <<>>)

\* The frames a turn sends: the status_update of a mode switch, then the
\* honeypot_response with session.current_mode.
TurnFrames(signal, response, mode, entities) ==
    (IF signal.should_switch
     THEN <<[type |-> "status_update", mode_switched |-> TRUE,
             new_mode |-> signal.new_mode, reason |-> signal.reason]>>
     ELSE <<>>)
    \o <<[type |-> "honeypot_response", content |-> response, mode |-> mode,
          entities_extracted |-> entities]>>

\* await websocket.accept() up to the first receive_json()
WsConnect(c, persona_id) ==
    /\ conn[c].pc = "closed"
    /\ ws_sent[c] = <<>>
    /\ IF persona_id \notin Personas
       THEN /\ Send(c, <<[type |-> "error", error |-> "Unknown persona"]>>)
            /\ UNCHANGED <<sess, active_sessions, session_agents, conn>>
       ELSE LET session_id == Len(sess) + 1
            IN  /\ sess' = Append(sess, Session(persona_id))
                /\ active_sessions' = active_sessions \cup {session_id}
                /\ session_agents' = session_agents \cup {session_id}
                /\ conn' = [conn EXCEPT ![c] =
                              [NoConn EXCEPT !.pc = "recv", !.session = session_id]]
                /\ Send(c, <<[type |-> "session_started",
                              session_id |-> session_id,
                              persona |-> persona_id]>>)
    /\ UNCHANGED <<frames_in, classify_calls, notGateway>>

\* The turn from analyze_and_switch to the call of generate().
Evaluate(c, session, text) ==
    LET r == TurnEvaluate(session, text)
    IN  /\ sess' = [sess EXCEPT ![conn[c].session] = r.session]
        /\ conn' = [conn EXCEPT ![c] =
                      [@ EXCEPT !.pc = "generate", !.msg = text,
                                !.signal = r.signal]]

\* receive_json() returns a frame: the loop body up to its next await.
WsReceive(c, frame) ==
    /\ conn[c].pc = "recv"
    /\ frames_in' = frames_in + 1
    /\ IF frame.type \notin WSMessageType
       THEN \* "except Exception": an error frame, and the handler returns
            /\ Send(c, <<[type |-> "error", error |-> "validation error"]>>)
            /\ conn' = [conn EXCEPT ![c] = [@ EXCEPT !.pc = "closed"]]
            /\ UNCHANGED <<sess, classify_calls>>
       ELSE IF frame.type = "scammer_message" /\ frame.content # None
       THEN LET s1 == TurnBegin(sess[conn[c].session], frame.content)
            IN  IF s1.scam_classification # None
                THEN /\ Evaluate(c, s1, frame.content)
                     /\ UNCHANGED <<ws_sent, classify_calls>>
                ELSE /\ classify_calls' = classify_calls + 1
                     /\ UNCHANGED ws_sent
                     /\ IF ClearRegexMatch(frame.content)
                        THEN Evaluate(c,
                                [s1 EXCEPT !.scam_classification =
                                              regex_classify(frame.content)],
                                frame.content)
                        ELSE /\ sess' = [sess EXCEPT ![conn[c].session] = s1]
                             /\ conn' = [conn EXCEPT ![c] =
                                           [@ EXCEPT !.pc = "classify",
                                                     !.msg = frame.content]]
       ELSE IF frame.type = "resume_session" /\ frame.session_id # NoId
               /\ frame.session_id \in active_sessions
       THEN /\ conn' = [conn EXCEPT ![c] = [@ EXCEPT !.session = frame.session_id]]
            /\ Send(c, <<[type |-> "session_resumed",
                          session_id |-> frame.session_id,
                          turn_count |-> sess[frame.session_id].turn_count,
                          mode |-> sess[frame.session_id].current_mode]>>)
            /\ UNCHANGED <<sess, classify_calls>>
       ELSE UNCHANGED <<sess, conn, ws_sent, classify_calls>>
    /\ UNCHANGED <<active_sessions, session_agents, notGateway>>

\* classify_scam() returns: the assignment to session.scam_classification,
\* then on to the call of generate().
WsClassified(c, outcome) ==
    /\ conn[c].pc = "classify"
    /\ Evaluate(c,
                [sess[conn[c].session] EXCEPT
                    !.scam_classification =
                        classify_with_llm(conn[c].msg, outcome)],
                conn[c].msg)
    /\ UNCHANGED <<active_sessions, session_agents, ws_sent, frames_in,
                   classify_calls, notGateway>>

\* generate() returns or raises: the reply or a fallback line, the
\* honeypot's entry, and the frames of the turn.
WsGenerated(c, outcome) ==
    /\ conn[c].pc = "generate"
    /\ LET session == sess[conn[c].session]
           lines == FallbackLines(session)
       IN  \E raw_response \in
                 IF outcome.kind = "raise"
                 THEN SeqToSet(lines)
                 ELSE {CleanResponse(outcome)} :
              LET s2 == TurnReply(session, raw_response)
                  signal == conn[c].signal
              IN  /\ sess' = [sess EXCEPT ![conn[c].session] = s2]
                  /\ Send(c, TurnFrames(signal, humanize(raw_response),
                                         s2.current_mode,
                                         to_list(extract_all(conn[c].msg))))
    /\ conn' = [conn EXCEPT ![c] =
                  [@ EXCEPT !.pc = "recv", !.msg = None, !.signal = None]]
    /\ UNCHANGED <<active_sessions, session_agents, frames_in, classify_calls,
                   notGateway>>

\* A handler that ends its session when the client disconnects.
WsDisconnectEnds(c) ==
    /\ conn[c].pc = "recv"
    /\ conn' = [conn EXCEPT ![c] = [@ EXCEPT !.pc = "closed"]]
    /\ active_sessions' = active_sessions \ {conn[c].session}
    /\ session_agents' = session_agents \ {conn[c].session}
    /\ UNCHANGED <<sess, ws_sent, frames_in, classify_calls, notGateway>>

\* WebSocketDisconnect out of receive_json(): the session is kept.
WsDisconnect(c) ==
    /\ conn[c].pc = "recv"
    /\ conn' = [conn EXCEPT ![c] = [@ EXCEPT !.pc = "closed"]]
    /\ UNCHANGED <<sess, active_sessions, session_agents, ws_sent, frames_in,
                   classify_calls, notGateway>>

InitGateway ==
    /\ ParkedSession /\ ParkedGateway /\ ParkedSwitch /\ ParkedBucket
    /\ ParkedEndpoints

\* One connection: the turns of its session come one after another.
SeqTexts == {Prize, Pay}

SeqFrames ==
    {ScammerMessage(text) : text \in SeqTexts}
    \cup {ScammerMessage(None), ResumeSession(1), ResumeSession(2), InvalidFrame}

NextSeq ==
    \/ \E persona_id \in PersonaInputs : WsConnect(1, persona_id)
    \/ \E frame \in SeqFrames : frames_in < MaxSeqFrames /\ WsReceive(1, frame)
    \/ \E outcome \in ClassifyOutcomes : WsClassified(1, outcome)
    \/ \E outcome \in GenerateOutcomes : WsGenerated(1, outcome)
    \/ WsDisconnect(1)

SpecSeq == InitGateway /\ [][NextSeq]_vars

\* The last entry of a session's transcript, the last frame of a connection.
LastMessage(session) ==
    session.conversation_history[Len(session.conversation_history)]

LastFrame(c) == ws_sent[c][Len(ws_sent[c])]

\* Two connections at once: a client may attach the second to the first's
\* session with resume_session.
WsTexts == {Hello, Threat}

WsFrames ==
    {ScammerMessage(text) : text \in WsTexts}
    \cup {ResumeSession(session_id) : session_id \in Conns}

WsPersonaInputs == {"young_professional", "nobody"}

NextWs ==
    \/ \E c \in Conns, persona_id \in WsPersonaInputs : WsConnect(c, persona_id)
    \/ \E c \in Conns, frame \in WsFrames :
          frames_in < MaxWsFrames /\ WsReceive(c, frame)
    \/ \E c \in Conns, outcome \in ClassifyOutcomes : WsClassified(c, outcome)
    \/ \E c \in Conns, outcome \in GenerateOutcomes : WsGenerated(c, outcome)
    \/ \E c \in Conns : WsDisconnect(c)

SpecWs == InitGateway /\ [][NextWs]_vars

(***************************************************************************)
(* C1: when generate() fails with RateLimitExceeded or LLMError, the turn  *)
(* still completes: the reply before humanization is one of the canned     *)
(* lines of FALLBACK_RESPONSES for the session's persona and for the mode  *)
(* the session is in after this turn's analyze_and_switch, that reply      *)
(* (humanized, with the canned line as raw_content) is appended to the     *)
(* transcript as the honeypot's entry, and it is the reply sent back.      *)
(***************************************************************************)
C1_FallbackReply ==
    [][\A c \in Conns : \A outcome \in {RateLimitExceeded, LLMError} :
          WsGenerated(c, outcome) =>
             LET before == sess[conn[c].session]
                 after == sess'[conn[c].session]
                 mode == conn[c].signal.new_mode
                 entry == LastMessage(after)
                 sent == ws_sent'[c][Len(ws_sent'[c])]
             IN  /\ before.current_mode = mode
                 /\ after.current_mode = mode
                 /\ after.conversation_history =
                       Append(before.conversation_history, entry)
                 /\ entry.role = "honeypot"
                 /\ entry.raw_content \in
                       SeqToSet(FALLBACK_RESPONSES[before.persona_id][mode])
                 /\ entry.content = humanize(entry.raw_content)
                 /\ after.turn_count = before.turn_count + 1
                 /\ sent.type = "honeypot_response"
                 /\ sent.content = entry.content
                 /\ sent.mode = mode
                 /\ conn'[c].pc = "recv"]_vars

\* A turn that switched the session to AGGRESSIVE has been answered with a
\* line of the persona's AGGRESSIVE fallbacks.
C1_Witness ==
    \E c \in Conns :
       /\ conn[c].pc = "recv"
       /\ Len(ws_sent[c]) >= 2
       /\ ws_sent[c][Len(ws_sent[c]) - 1].type = "status_update"
       /\ LastFrame(c).type = "honeypot_response"
       /\ LET session == sess[conn[c].session]
          IN  /\ session.persona_id = "small_business_owner"
              /\ session.current_mode = AGGRESSIVE
              /\ LastMessage(session).raw_content
                    = Reply("I need this money urgently. What's your UPI?")
              /\ LastFrame(c).content = humanize(LastMessage(session).raw_content)

(***************************************************************************)
(* C2: within one session turns never interleave -- the honeypot's reply   *)
(* to a message is appended to the transcript before the next message of   *)
(* the session is, so a transcript is scammer, honeypot, scammer, honeypot *)
(* and so on, also when two connections feed the same session.             *)
(***************************************************************************)
C2_TurnsNeverInterleave ==
    \A s \in 1..Len(sess) :
       LET h == sess[s].conversation_history
       IN  \A i \in 1..Len(h) :
              h[i].role = (IF i % 2 = 1 THEN "scammer" ELSE "honeypot")

\* Two connections stand in the middle of a turn of the same session, both
\* scammer messages recorded and neither answered.
C2_Interleaved ==
    /\ conn[1].pc = "generate" /\ conn[2].pc = "generate"
    /\ conn[1].session = conn[2].session
    /\ LET h == sess[conn[1].session].conversation_history
       IN  /\ Len(h) = 2
           /\ h[1].role = "scammer" /\ h[2].role = "scammer"

(***************************************************************************)
(* C8: over turns processed one after another, a classification that is    *)
(* not null is never replaced or modified, and classify_scam is called     *)
(* only by a turn that starts with the session's classification null.      *)
(***************************************************************************)
C8_FirstClassificationWins ==
    /\ [][\A s \in 1..Len(sess) :
             sess[s].scam_classification # None =>
                sess'[s].scam_classification = sess[s].scam_classification]_vars
    /\ [][classify_calls' # classify_calls =>
             /\ classify_calls' = classify_calls + 1
             /\ \E c \in Conns :
                   /\ conn[c].pc = "recv" /\ conn'[c].pc # "recv"
                   /\ sess[conn[c].session].scam_classification = None]_vars

\* The LLM classified the first message; a later message the regex alone
\* would have called a lottery scam has been processed since, without a
\* second call.
C8_Witness ==
    /\ classify_calls = 1
    /\ \E s \in 1..Len(sess) :
          /\ sess[s].scam_classification # None
          /\ sess[s].scam_classification.scam_type = "upi_fraud"
          /\ sess[s].turn_count = 4
          /\ sess[s].conversation_history[1].content = Pay
          /\ sess[s].conversation_history[3].content = Prize
          /\ regex_classify(Prize).scam_type = "lottery"

(***************************************************************************)
(* C9: in every state, a session's accumulated entities hold no duplicate  *)
(* under the key of their category: no two UPI ids and no two emails equal *)
(* ignoring case, no two phone numbers with the same normalized (last ten  *)
(* digits) form, no two bank accounts with the same account number, no two *)
(* crypto addresses with the same address, no URL twice.                   *)
(***************************************************************************)
NoTwo(seq, Key(_)) ==
    \A i, j \in 1..Len(seq) : Key(seq[i]) = Key(seq[j]) => i = j

C9_NoDuplicateEntities ==
    \A s \in 1..Len(sess) :
       LET e == sess[s].extracted_entities
       IN  /\ NoTwo(e.upi_ids, Lower)
           /\ NoTwo(e.email_addresses, Lower)
           /\ NoTwo(e.phone_numbers, normalize_phone)
           /\ NoTwo(e.bank_accounts, AccountNumber)
           /\ NoTwo(e.crypto_addresses, Address)
           /\ NoTwo(e.urls, ExactValue)

\* Two messages named the same UPI id in different case and the same phone
\* number in different formats, and the session holds each once.
C9_Witness ==
    \E s \in 1..Len(sess) :
       LET e == sess[s].extracted_entities
           h == sess[s].conversation_history
       IN  /\ Len(h) >= 3
           /\ h[1].content = Prize
           /\ h[3].content = Pay
           /\ Len(e.upi_ids) = 1 /\ Len(e.phone_numbers) = 1
           /\ Len(e.bank_accounts) = 1 /\ Len(e.urls) = 1
           /\ Len(e.email_addresses) = 1
           /\ Lower(e.upi_ids[1]) = Findall(Pay).upi[1]
           /\ e.upi_ids[1] # Findall(Pay).upi[1]
           /\ normalize_phone(e.phone_numbers[1]) = Findall(Pay).phones[1]

(***************************************************************************)
(* The voice detector (voice/detector.py).  Weights, segment scores and    *)
(* thresholds are in thousandths; the cumulative score and the final score *)
(* are in 1/ScoreUnit of a thousandth, which holds the rolling average     *)
(* without rounding for a detector's first seven segments.                 *)
(***************************************************************************)
Max(a, b) == IF a >= b THEN a ELSE b

SCAM_INDICATORS ==
    <<
      [keyword |-> "your computer", weight |-> 300], [keyword |-> "virus", weight |-> 400],
      [keyword |-> "malware", weight |-> 400], [keyword |-> "microsoft", weight |-> 200],
      [keyword |-> "tech support", weight |-> 500], [keyword |-> "remote access", weight |-> 500],
      [keyword |-> "infected", weight |-> 400], [keyword |-> "hacked", weight |-> 400],
      [keyword |-> "congratulations", weight |-> 300], [keyword |-> "you have won", weight |-> 500],
      [keyword |-> "lucky winner", weight |-> 500], [keyword |-> "prize money", weight |-> 500],
      [keyword |-> "lottery", weight |-> 500], [keyword |-> "lucky draw", weight |-> 500],
      [keyword |-> "kbc", weight |-> 600], [keyword |-> "kaun banega crorepati", weight |-> 600],
      [keyword |-> "lakh", weight |-> 200], [keyword |-> "crore", weight |-> 200],
      [keyword |-> "kyc", weight |-> 300], [keyword |-> "kyc verification", weight |-> 500],
      [keyword |-> "account blocked", weight |-> 500], [keyword |-> "account suspended", weight |-> 500],
      [keyword |-> "update your details", weight |-> 400], [keyword |-> "bank account", weight |-> 200],
      [keyword |-> "pan card", weight |-> 200], [keyword |-> "aadhaar", weight |-> 200],
      [keyword |-> "upi", weight |-> 200], [keyword |-> "paytm", weight |-> 200],
      [keyword |-> "google pay", weight |-> 200], [keyword |-> "phonepe", weight |-> 200],
      [keyword |-> "urgent", weight |-> 300], [keyword |-> "immediately", weight |-> 300],
      [keyword |-> "right now", weight |-> 300], [keyword |-> "within 24 hours", weight |-> 400],
      [keyword |-> "last chance", weight |-> 400], [keyword |-> "act now", weight |-> 400],
      [keyword |-> "don't delay", weight |-> 400], [keyword |-> "limited time", weight |-> 300],
      [keyword |-> "send money", weight |-> 500], [keyword |-> "transfer", weight |-> 200],
      [keyword |-> "processing fee", weight |-> 500], [keyword |-> "registration fee", weight |-> 500],
      [keyword |-> "tax", weight |-> 200], [keyword |-> "pay first", weight |-> 500],
      [keyword |-> "advance payment", weight |-> 500], [keyword |-> "government", weight |-> 200],
      [keyword |-> "police", weight |-> 300], [keyword |-> "income tax", weight |-> 300],
      [keyword |-> "department", weight |-> 200], [keyword |-> "official", weight |-> 200],
      [keyword |-> "officer", weight |-> 200], [keyword |-> "arrest", weight |-> 400],
      [keyword |-> "legal action", weight |-> 400], [keyword |-> "case filed", weight |-> 400],
      [keyword |-> "fir", weight |-> 400], [keyword |-> "court", weight |-> 300],
      [keyword |-> "jail", weight |-> 400]
    >>

\* keyword.lower() in text.lower(), for the keywords of SCAM_INDICATORS
KeywordsIn(text) ==
    IF text.name = "prize"
    THEN {"you have won", "lottery", "lucky draw", "processing fee"}
    ELSE IF text.name = "threat"
    THEN {"immediately", "police", "arrest"}
    ELSE IF text.name = "urgent"
    THEN {"urgent", "immediately"}
    ELSE {}

\* SCAM_TYPE_PATTERNS: the types in the order of the dict; each has four
\* patterns.
SCAM_TYPE_PATTERNS == <<"tech_support", "lottery", "upi_fraud", "investment">>

NoPatterns == [t \in SeqToSet(SCAM_TYPE_PATTERNS) |-> {}]

\* the patterns of each type that re.search finds in the text
PatternsIn(text) ==
    IF text.name = "prize" THEN [NoPatterns EXCEPT !["lottery"] = {1, 2}]
    ELSE IF text.name = "pay" THEN [NoPatterns EXCEPT !["lottery"] = {1}]
    ELSE NoPatterns

\* ScamAnalysis
ScamAnalysis(score, scam_type, indicators, is_scammer, confidence) ==
    [score |-> score, scam_type |-> scam_type, indicators |-> indicators,
     is_scammer |-> is_scammer, confidence |-> confidence]

DefaultThreshold == 600

ContextSegments == 5

CumulativeKeep == 7

CumulativeTake == 3

MediumFrom == 300

HighFrom == 600

ScoreCap == 1000

ScoreUnit == 100000

\* A final score that is the cumulative score alone.
FinalScoreOfCumulative(score, cumulative_score) == cumulative_score

\* final_score = max(score, self.cumulative_score)
FinalScore(score, cumulative_score) == Max(score * ScoreUnit, cumulative_score)

\* round(final_score, 2), in hundredths
Round2(final_score) == (final_score + 5 * ScoreUnit) \div (10 * ScoreUnit)

\* VoiceScamDetector.__init__, create_detector
VoiceScamDetector(threshold) ==
    [threshold |-> threshold, history |-> <<>>, cumulative_score |-> 0,
     detected_indicators |-> {}]

create_detector == VoiceScamDetector(DefaultThreshold)

RECURSIVE SumWeights(_)
SumWeights(indicators) ==
    IF indicators = <<>> THEN 0
    ELSE Head(indicators).weight + SumWeights(Tail(indicators))

\* _detect_scam_type: the type with the most patterns found, the first of
\* them in the dict's order; "unknown" when no pattern is found.  context
\* is the list of the segments joined into the text searched.
detect_scam_type(context) ==
    LET scores == [t \in SeqToSet(SCAM_TYPE_PATTERNS) |->
                      Cardinality(UNION {PatternsIn(context[i])[t] :
                                            i \in 1..Len(context)})]
        best == CHOOSE m \in {scores[t] : t \in DOMAIN scores} :
                   \A t \in DOMAIN scores : scores[t] <= m
        first == CHOOSE i \in 1..Len(SCAM_TYPE_PATTERNS) :
                    /\ scores[SCAM_TYPE_PATTERNS[i]] = best
                    /\ \A j \in 1..(i - 1) : scores[SCAM_TYPE_PATTERNS[j]] # best
    IN  IF best = 0 THEN "unknown" ELSE SCAM_TYPE_PATTERNS[first]

\* the keywords of SCAM_INDICATORS found in the last ContextSegments
\* segments of history, with their weights, in the dict's order
ContextHits(history) ==
    LET context == LastN(history, ContextSegments)
        found == UNION {KeywordsIn(context[i]) : i \in 1..Len(context)}
    IN  SelectSeq(SCAM_INDICATORS, LAMBDA k : k.keyword \in found)

\* score = min(score, 1.0), of the weights found in the context
SegmentScore(history) == Min(SumWeights(ContextHits(history)), ScoreCap)

\* VoiceScamDetector.analyze: the detector after the call, and the analysis
\* it returns.  A keyword is in the joined context when it is in one of the
\* segments joined.
detector_analyze(self, transcript) ==
    LET history == Append(self.history, transcript)
        context == LastN(history, ContextSegments)
        hits == ContextHits(history)
        indicators == [i \in 1..Len(hits) |-> hits[i].keyword]
        score == SegmentScore(history)
        cumulative == (self.cumulative_score * CumulativeKeep
                       + score * ScoreUnit * CumulativeTake) \div 10
        final_score == FinalScore(score, cumulative)
        confidence == IF final_score < MediumFrom * ScoreUnit THEN "low"
                      ELSE IF final_score < HighFrom * ScoreUnit THEN "medium"
                      ELSE "high"
    IN  [detector |->
            [self EXCEPT !.history = history,
                         !.cumulative_score = cumulative,
                         !.detected_indicators = @ \cup SeqToSet(indicators)],
         analysis |->
            ScamAnalysis(Round2(final_score),
                         detect_scam_type(context), indicators,
                         final_score >= self.threshold * ScoreUnit,
                         confidence)]

(***************************************************************************)
(* POST /api/honeypot: the key check and the handler.                      *)
(***************************************************************************)
\* x_api_key: str = Header(...), then verify_api_key: the response that
\* rejects the request, or None when the key is let through.  A request
\* without the required header is answered by the framework's validation
\* error, and the body of verify_api_key does not run.
verify_api_key(x_api_key) ==
    IF x_api_key = <<>>
    THEN Response(422, [detail |-> "Field required"])
    ELSE IF x_api_key[1] = ""
    THEN Response(401, [detail |-> "Missing API Key"])
    ELSE IF expected_key # "" /\ x_api_key[1] # expected_key
    THEN Response(401, [detail |-> "Invalid API Key"])
    ELSE None

\* process_scammer_message up to its first suspension: entity merge, the
\* classifier when the session has no classification yet, and on to the
\* call of generate() unless the classifier's LLM call is in flight.
TurnStart(session, text) ==
    LET s1 == TurnBegin(session, text)
        classified == [s1 EXCEPT !.scam_classification = regex_classify(text)]
        Generate(r, calls) ==
            [session |-> r.session, signal |-> r.signal, pc |-> "generate",
             calls |-> calls]
    IN  IF s1.scam_classification # None
        THEN Generate(TurnEvaluate(s1, text), 0)
        ELSE IF ClearRegexMatch(text)
        THEN Generate(TurnEvaluate(classified, text), 1)
        ELSE [session |-> s1, signal |-> None, pc |-> "classify", calls |-> 1]

\* ExtractedIntelligence, GuviCallbackPayload
ExtractedIntelligence(all_entities, analysis) ==
    [bankAccounts |-> [i \in 1..Len(all_entities.bank_accounts) |->
                          all_entities.bank_accounts[i].account_number],
     upiIds |-> all_entities.upi_ids,
     phishingLinks |-> all_entities.urls,
     phoneNumbers |-> all_entities.phone_numbers,
     suspiciousKeywords |-> analysis.indicators]

GuviCallbackPayload(sessionId, session, analysis) ==
    [sessionId |-> sessionId,
     scamDetected |-> TRUE,
     totalMessagesExchanged |-> session.turn_count,
     extractedIntelligence |->
         ExtractedIntelligence(session.extracted_entities, analysis),
     agentNotes |-> <<analysis.scam_type, analysis.confidence>>]

\* The callback condition with the turn count compared from 2 on.
CallbackDueFromTwo(analysis, session) ==
    analysis.is_scammer \/ session.turn_count >= 2

\* if analysis.is_scammer or session.turn_count > 2
CallbackDue(analysis, session) ==
    analysis.is_scammer \/ session.turn_count > 2

\* A POST /api/honeypot arrives: the key check, the session lookup or
\* creation, detector.analyze, and the agent's turn up to its first
\* suspension.
ApiPost(r, x_api_key, request) ==
    /\ api[r].pc = "idle"
    /\ api_in < MaxApiRequests
    /\ api_in' = api_in + 1
    /\ LET call == [NoCall EXCEPT !.x_api_key = x_api_key, !.request = request]
           rejected == verify_api_key(x_api_key)
           session_id == request.sessionId
           scammer_text == request.message.text
       IN  IF rejected # None
           THEN /\ api' = [api EXCEPT ![r] = [call EXCEPT !.response = rejected]]
                /\ UNCHANGED <<sess, voice_sessions, classify_calls>>
           ELSE IF voice_sessions[session_id] # NoEntry
           THEN \* EntityExtractor is a local name of the handler, bound only
                \* by the import of the new-session branch: reading it here
                \* raises UnboundLocalError
                /\ api' = [api EXCEPT ![r] =
                             [call EXCEPT !.response = InternalServerError]]
                /\ UNCHANGED <<sess, voice_sessions, classify_calls>>
           ELSE IF session_id.length = 36 /\ ~session_id.is_hex
           THEN \* UUID(hex=...) raises ValueError
                /\ api' = [api EXCEPT ![r] =
                             [call EXCEPT !.response = InternalServerError]]
                /\ UNCHANGED <<sess, voice_sessions, classify_calls>>
           ELSE LET s == Len(sess) + 1
                    d == detector_analyze(create_detector, scammer_text)
                    turn == TurnStart(Session("young_professional"),
                                      scammer_text)
                IN  /\ sess' = Append(sess, turn.session)
                    /\ voice_sessions' =
                          [voice_sessions EXCEPT ![session_id] =
                              [detector |-> d.detector, session |-> s,
                               agent |-> s, is_scammer_mode |-> TRUE]]
                    /\ classify_calls' = classify_calls + turn.calls
                    /\ api' = [api EXCEPT ![r] =
                                 [call EXCEPT !.pc = turn.pc, !.session = s,
                                              !.analysis = d.analysis,
                                              !.signal = turn.signal]]
    /\ UNCHANGED <<expected_key, callbacks, callbacks_run, notApi>>

\* classify_scam() returns to the request's turn.
ApiClassified(r, outcome) ==
    /\ api[r].pc = "classify"
    /\ LET text == api[r].request.message.text
           turn == TurnEvaluate(
                      [sess[api[r].session] EXCEPT
                          !.scam_classification =
                              classify_with_llm(text, outcome)],
                      text)
       IN  /\ sess' = [sess EXCEPT ![api[r].session] = turn.session]
           /\ api' = [api EXCEPT ![r] =
                        [@ EXCEPT !.pc = "generate", !.signal = turn.signal]]
    /\ UNCHANGED <<expected_key, voice_sessions, api_in, callbacks,
                   callbacks_run, classify_calls, notApi>>

\* generate() returns or raises: the reply, the callback when it is due,
\* and the response.
ApiGenerated(r, outcome) ==
    /\ api[r].pc = "generate"
    /\ LET session == sess[api[r].session]
           analysis == api[r].analysis
       IN  \E raw_response \in
                 IF outcome.kind = "raise"
                 THEN SeqToSet(FallbackLines(session))
                 ELSE {CleanResponse(outcome)} :
              LET s2 == TurnReply(session, raw_response)
              IN  /\ sess' = [sess EXCEPT ![api[r].session] = s2]
                  /\ callbacks' =
                        IF CallbackDue(analysis, s2)
                        THEN Append(callbacks,
                                    GuviCallbackPayload(
                                        api[r].request.sessionId, s2, analysis))
                        ELSE callbacks
                  /\ api' = [api EXCEPT ![r] =
                               [@ EXCEPT
                                  !.pc = "idle",
                                  !.response =
                                      Response(200,
                                          HoneypotResponse(
                                              humanize(raw_response)))]]
    /\ UNCHANGED <<expected_key, voice_sessions, api_in, callbacks_run,
                   classify_calls, notApi>>

\* send_guvi_callback runs after the response went out; what the remote
\* service answers is printed and changes nothing.
SendGuviCallback ==
    /\ callbacks_run < Len(callbacks)
    /\ callbacks_run' = callbacks_run + 1
    /\ UNCHANGED <<expected_key, voice_sessions, api, api_in, callbacks, sess,
                   classify_calls, notApi>>

InitApi ==
    /\ expected_key \in ExpectedKeys
    /\ NewApi
    /\ ParkedSession
    /\ ParkedSwitch
    /\ ParkedBucket
    /\ ParkedGateway
    /\ ParkedRest
    /\ ParkedMock
    /\ ParkedLib

NextApi ==
    \/ \E r \in ApiReqs, x_api_key \in ApiKeys, request \in ApiRequests :
          ApiPost(r, x_api_key, request)
    \/ \E r \in ApiReqs, outcome \in ClassifyOutcomes : ApiClassified(r, outcome)
    \/ \E r \in ApiReqs, outcome \in GenerateOutcomes : ApiGenerated(r, outcome)
    \/ SendGuviCallback

SpecApi == InitApi /\ [][NextApi]_vars

(***************************************************************************)
(* C10: a POST /api/honeypot whose x-api-key is missing or empty, or       *)
(* differs from the expected key when one is configured, is answered 401   *)
(* and nothing is done for it: no session is created or advanced, the      *)
(* classifier is not called and no callback is scheduled; any other key is *)
(* let through to the handler.                                             *)
(***************************************************************************)
KeyMissingOrWrong(x_api_key) ==
    \/ x_api_key = <<>>
    \/ x_api_key[1] = ""
    \/ expected_key # "" /\ x_api_key[1] # expected_key

Unauthorized(response) == response # None /\ response.status_code = 401

C10_RejectedWith401 ==
    [][\A r \in ApiReqs :
          api_in' = api_in + 1 /\ api'[r] # api[r] =>
             IF KeyMissingOrWrong(api'[r].x_api_key)
             THEN /\ Unauthorized(api'[r].response)
                  /\ api'[r].pc = "idle"
                  /\ UNCHANGED <<sess, voice_sessions, callbacks,
                                 classify_calls>>
             ELSE ~Unauthorized(api'[r].response)]_vars

\* The same with the answer left open: whatever the status of the answer,
\* a request with such a key does no session work.
C10_RejectedBeforeSessionWork ==
    [][\A r \in ApiReqs :
          api_in' = api_in + 1 /\ api'[r] # api[r] =>
             IF KeyMissingOrWrong(api'[r].x_api_key)
             THEN /\ api'[r].response # None
                  /\ api'[r].response.status_code \in {401, 422}
                  /\ api'[r].pc = "idle"
                  /\ UNCHANGED <<sess, voice_sessions, callbacks,
                                 classify_calls>>
             ELSE ~Unauthorized(api'[r].response)]_vars

\* A request without the header has been answered, and not with 401.
C10_MissingKeyAnswered ==
    \E r \in ApiReqs :
       /\ api[r].request # None
       /\ api[r].x_api_key = <<>>
       /\ api[r].response.status_code = 422

\* With no expected key configured, a request with some non-empty key has
\* been answered 200.
C10_AnyKeyAccepted ==
    \E r \in ApiReqs :
       /\ expected_key = ""
       /\ api[r].x_api_key = <<"guess">>
       /\ api[r].response # None
       /\ api[r].response.status_code = 200

(***************************************************************************)
(* C11: an authorized POST /api/honeypot whose sessionId already has a     *)
(* session is served by that session: no new session is created, the turn  *)
(* goes on from the transcript and turn count the earlier call left, and   *)
(* the call is answered 200 {status: "success", reply}.                    *)
(***************************************************************************)
Authorized(call) ==
    call.request # None /\ ~KeyMissingOrWrong(call.x_api_key)

C11_SameSessionContinues ==
    [][\A r \in ApiReqs :
          LET call == api'[r]
              entry == voice_sessions[call.request.sessionId]
          IN  /\ api_in' = api_in + 1
              /\ call # api[r]
              /\ Authorized(call)
              /\ entry # NoEntry
              => /\ Len(sess') = Len(sess)
                 /\ call.session = entry.session
                 /\ call.pc # "idle"
                 /\ Len(sess'[entry.session].conversation_history)
                       > Len(sess[entry.session].conversation_history)]_vars

\* What does hold: a sessionId never gets a second session.
C11_OneSessionPerId ==
    [][\A id \in ApiSessionIds :
          voice_sessions[id] # NoEntry => voice_sessions'[id] = voice_sessions[id]]_vars

\* A second authorized call with the sessionId of a served one has been
\* answered 500.
C11_LaterCallFails ==
    \E r \in ApiReqs :
       /\ Authorized(api[r])
       /\ voice_sessions[api[r].request.sessionId] # NoEntry
       /\ api[r].session = NoId
       /\ api[r].response = InternalServerError

(***************************************************************************)
(* C12: when the turn of an authorized POST /api/honeypot call has been    *)
(* processed, the call schedules one callback if the detector judged its   *)
(* message scam-like or the session's turn count is greater than 2, and    *)
(* none otherwise; a call does not schedule a callback at any other step.  *)
(***************************************************************************)
C12_CallbackExactlyWhenDue ==
    [][\A r \in ApiReqs :
          api'[r] # api[r] =>
             IF api[r].pc = "generate"
             THEN LET session == sess'[api[r].session]
                      due == \/ api[r].analysis.is_scammer
                             \/ session.turn_count > 2
                  IN  /\ Authorized(api[r])
                      /\ api'[r].response.status_code = 200
                      /\ due => /\ Len(callbacks') = Len(callbacks) + 1
                                /\ callbacks'[Len(callbacks')].sessionId
                                      = api[r].request.sessionId
                                /\ callbacks'[Len(callbacks')].totalMessagesExchanged
                                      = session.turn_count
                      /\ ~due => callbacks' = callbacks
             ELSE callbacks' = callbacks]_vars

\* A call with a scam-like message has scheduled its callback, and a call
\* with a harmless one has been answered without one.
C12_Witness ==
    \E r1, r2 \in ApiReqs :
       /\ api[r1].response # None /\ api[r1].response.status_code = 200
       /\ api[r1].analysis.is_scammer
       /\ api[r2].response # None /\ api[r2].response.status_code = 200
       /\ ~api[r2].analysis.is_scammer
       /\ sess[api[r2].session].turn_count = 2
       /\ Len(callbacks) = 1
       /\ callbacks[1].sessionId = api[r1].request.sessionId

(***************************************************************************)
(* C13: on /ws/honeypot a turn sends exactly one honeypot_response, when   *)
(* its reply is ready, and no other step sends one; a status_update with   *)
(* mode_switched is sent for the turn exactly when the turn changed the    *)
(* session's mode, it comes right before the turn's honeypot_response, and *)
(* that response carries the mode switched to.                             *)
(***************************************************************************)
NewFrames(c) == SubSeq(ws_sent'[c], Len(ws_sent[c]) + 1, Len(ws_sent'[c]))

TurnFrameTypes == {"honeypot_response", "status_update"}

C13_OneResponsePerTurn ==
    [][\A c \in Conns :
          LET new == NewFrames(c)
              s == conn[c].session
          IN  /\ \* the turn is evaluated: its signal tells whether it
                 \* changed the mode
                 conn'[c].pc = "generate" /\ conn[c].pc # "generate" =>
                    /\ conn'[c].signal.should_switch
                          <=> sess'[s].current_mode # sess[s].current_mode
                    /\ conn'[c].signal.new_mode = sess'[s].current_mode
                    /\ new = <<>>
              /\ \* the reply is ready: the frames of the turn
                 conn[c].pc = "generate" /\ conn'[c].pc # "generate" =>
                    LET last == new[Len(new)]
                    IN  /\ Len(new) = IF conn[c].signal.should_switch THEN 2 ELSE 1
                        /\ last.type = "honeypot_response"
                        /\ last.content = LastMessage(sess'[s]).content
                        /\ conn[c].signal.should_switch =>
                              /\ new[1].type = "status_update"
                              /\ new[1].mode_switched
                              /\ new[1].new_mode = conn[c].signal.new_mode
                              /\ last.mode = conn[c].signal.new_mode
                        /\ conn'[c].pc = "recv"
              /\ \* no other step sends a frame of a turn
                 ~(conn[c].pc = "generate" /\ conn'[c].pc # "generate") =>
                    \A i \in 1..Len(new) : new[i].type \notin TurnFrameTypes]_vars

\* A turn has switched the mode: its status_update, then its response in
\* the mode switched to, are the last frames sent.
C13_Witness ==
    \E c \in Conns :
       LET n == Len(ws_sent[c])
       IN  /\ n >= 5
           /\ conn[c].pc = "recv"
           /\ ws_sent[c][n - 1].type = "status_update"
           /\ ws_sent[c][n].type = "honeypot_response"
           /\ ws_sent[c][n].mode = AGGRESSIVE
           /\ ws_sent[c][n - 2].type = "honeypot_response"
           /\ ws_sent[c][n - 2].mode = PATIENCE

(***************************************************************************)
(* The session endpoints (POST and DELETE /api/sessions, GET /api/report)  *)
(* and the lifespan's shutdown (main.py).  None of them suspends.          *)
(***************************************************************************)
\* the terms calculate_threat_level adds, in its order, in thousandths:
\* confidence * 0.4 and the four capped entity terms
ThreatTerms(classification, entities) ==
    <<classification.confidence * 4,
      Min(Len(entities.upi_ids) * 150, 300),
      Min(Len(entities.bank_accounts) * 200, 300),
      Min(Len(entities.phone_numbers) * 100, 200),
      Min(Len(entities.crypto_addresses) * 250, 300)>>

\* score is a double.  These are the sums of a confidence in hundredths
\* and of the four terms that are 0.8 in decimals and 0.7999999999999999
\* when added as doubles in the order of the code; every other such sum
\* compares with 0.8, 0.6 and 0.4 as its decimal value does.
RoundsBelow ==
    {<<0, 150, 300, 100, 250>>, <<100, 300, 300, 100, 0>>,
     <<200, 300, 200, 100, 0>>, <<400, 0, 300, 100, 0>>,
     <<400, 300, 0, 100, 0>>}

\* A score compared as the decimal number it stands for.
AtLeastInDecimals(terms, threshold) ==
    terms[1] + terms[2] + terms[3] + terms[4] + terms[5] >= threshold

\* score >= threshold, for the double the code has added up
AtLeast(terms, threshold) ==
    LET score == terms[1] + terms[2] + terms[3] + terms[4] + terms[5]
    IN  score > threshold \/ (score = threshold /\ terms \notin RoundsBelow)

\* calculate_threat_level
calculate_threat_level(classification, entities) ==
    LET terms == ThreatTerms(classification, entities)
    IN  IF AtLeast(terms, 800) THEN "critical"
        ELSE IF AtLeast(terms, 600) THEN "high"
        ELSE IF AtLeast(terms, 400) THEN "medium"
        ELSE "low"

\* FraudIntelligenceReport.from_session
from_session(session_id, session) ==
    LET classification ==
            IF session.scam_classification # None
            THEN session.scam_classification
            ELSE ScamClassification("unknown", 0, <<>>)
        entities == session.extracted_entities
        Tag(cond, name) == IF cond THEN <<name>> ELSE <<>>
    IN  [session_id |-> session_id,
         classification |-> classification,
         threat_level |-> calculate_threat_level(classification, entities),
         extracted_iocs |-> entities,
         tactics_observed |->
             Tag(session.urgency_signals > 0, "urgency")
             \o Tag(session.greed_signals > 0, "greed")
             \o Tag(classification.scam_type # "unknown", "scam_pattern"),
         conversation_transcript |-> session.conversation_history,
         recommendations |->
             Tag(entities.upi_ids # <<>>, "upi")
             \o Tag(entities.phone_numbers # <<>>, "phone")
             \o Tag(entities.bank_accounts # <<>>, "bank")
             \o Tag(entities.urls # <<>>, "urls"),
         persona_used |-> session.persona_id]

\* The ids a client may name in a session request.
SessionIdInputs == {1, 2, 3}

\* A cleanup that forgets the session's agent.
cleanup_session_table_only(session_id) ==
    /\ active_sessions' = active_sessions \ {session_id}
    /\ session_agents' = session_agents

\* A cleanup that forgets the agent and keeps the session.
cleanup_session_agent_only(session_id) ==
    /\ active_sessions' = active_sessions
    /\ session_agents' = session_agents \ {session_id}

\* cleanup_session
cleanup_session(session_id) ==
    /\ active_sessions' = active_sessions \ {session_id}
    /\ session_agents' = session_agents \ {session_id}

\* The request is counted and answered.
Answer(response) ==
    /\ serving
    /\ rest_in < MaxRestCalls
    /\ rest_in' = rest_in + 1
    /\ rest' = response

\* POST /api/sessions?persona_id=...
CreateSession(persona_id) ==
    /\ IF persona_id \notin Personas
       THEN /\ Answer(Response(400, [detail |-> "Unknown persona"]))
            /\ UNCHANGED <<sess, active_sessions, session_agents>>
       ELSE LET session_id == Len(sess) + 1
            IN  /\ Len(sess) < MaxLifeSessions
                /\ sess' = Append(sess, Session(persona_id))
                /\ active_sessions' = active_sessions \cup {session_id}
                /\ session_agents' = session_agents \cup {session_id}
                /\ Answer(Response(200, [session_id |-> session_id,
                                         persona_id |-> persona_id]))
    /\ UNCHANGED <<serving, notRest>>

\* DELETE /api/sessions/{session_id}
EndSession(session_id) ==
    /\ IF session_id \notin active_sessions
       THEN /\ Answer(Response(404, [detail |-> "Session not found"]))
            /\ UNCHANGED <<active_sessions, session_agents>>
       ELSE /\ cleanup_session(session_id)
            /\ Answer(Response(200, [status |-> "ended",
                                     session_id |-> session_id]))
    /\ UNCHANGED <<sess, serving, notRest>>

\* GET /api/report/{session_id}
GetReport(session_id) ==
    /\ IF session_id \notin active_sessions
       THEN Answer(Response(404, [detail |-> "Session not found"]))
       ELSE Answer(Response(200, from_session(session_id, sess[session_id])))
    /\ UNCHANGED <<sess, active_sessions, session_agents, serving, notRest>>

\* The lifespan after its yield: cleanup_session for every key of
\* active_sessions; cleanup_session suspends nowhere, so the loop is one
\* step.
Shutdown ==
    /\ serving
    /\ serving' = FALSE
    /\ active_sessions' = {}
    /\ session_agents' = session_agents \ active_sessions
    /\ UNCHANGED <<sess, rest, rest_in, notRest>>

\* Sessions created, resumed, ended while connections come and go.
\* The sample's type is clear to the regex stage: no classifier call is left
\* in flight.
LifeTexts == {Prize}

LifeFrames ==
    {ScammerMessage(text) : text \in LifeTexts}
    \cup {ResumeSession(session_id) : session_id \in Conns}

LifeOutcomes == {LLMText("Oh, tell me more about it", TRUE)}

NextLife ==
    \/ \E persona_id \in WsPersonaInputs : CreateSession(persona_id)
    \/ \E session_id \in SessionIdInputs : EndSession(session_id)
    \/ \E session_id \in SessionIdInputs : GetReport(session_id)
    \/ Shutdown
    \/ \E c \in Conns, persona_id \in WsPersonaInputs :
          serving /\ Len(sess) < MaxLifeSessions /\ WsConnect(c, persona_id)
    \/ \E c \in Conns, frame \in LifeFrames :
          serving /\ frames_in < MaxLifeFrames /\ WsReceive(c, frame)
    \/ \E c \in Conns, outcome \in LifeOutcomes :
          serving /\ WsGenerated(c, outcome)
    \/ \E c \in Conns : serving /\ WsDisconnect(c)

SpecLife == InitGateway /\ [][NextLife]_vars

(***************************************************************************)
(* C14: a session of /ws/honeypot leaves the active-session table only by  *)
(* DELETE /api/sessions/{id} or by shutdown, not when its client           *)
(* disconnects; a resume_session frame naming a session of the table is    *)
(* answered session_resumed with that session's turn count and mode and    *)
(* makes it the connection's session; and a scammer_message advances the   *)
(* connection's session -- the one resumed -- and no other.                *)
(***************************************************************************)
C14_SessionKeptAndResumed ==
    [][/\ \A id \in active_sessions \ active_sessions' :
             \/ ~serving'
             \/ /\ rest_in' = rest_in + 1
                /\ rest' = Response(200, [status |-> "ended", session_id |-> id])
       /\ \A c \in Conns :
             /\ \A id \in active_sessions :
                   WsReceive(c, ResumeSession(id)) =>
                      /\ NewFrames(c) =
                            <<[type |-> "session_resumed", session_id |-> id,
                               turn_count |-> sess[id].turn_count,
                               mode |-> sess[id].current_mode]>>
                      /\ conn'[c].session = id
                      /\ sess' = sess
             /\ \A text \in LifeTexts :
                   WsReceive(c, ScammerMessage(text)) =>
                      /\ sess'[conn[c].session] # sess[conn[c].session]
                      /\ \A s \in 1..Len(sess) :
                            s # conn[c].session => sess'[s] = sess[s]
             /\ conn'[c].session # conn[c].session =>
                   \/ conn[c].pc = "closed"
                   \/ \E id \in active_sessions :
                         WsReceive(c, ResumeSession(id))]_vars

\* The client of session 1 has gone after one turn; connection 2, opened
\* with a session of its own, resumed session 1 at turn count 2 and its
\* message went to session 1.
C14_Witness ==
    /\ conn[1].pc = "closed"
    /\ 1 \in active_sessions
    /\ conn[2].pc = "recv" /\ conn[2].session = 1
    /\ Len(ws_sent[2]) = 3
    /\ ws_sent[2][1].type = "session_started" /\ ws_sent[2][1].session_id = 2
    /\ ws_sent[2][2].type = "session_resumed" /\ ws_sent[2][2].turn_count = 2
    /\ ws_sent[2][3].type = "honeypot_response"
    /\ sess[1].turn_count = 4
    /\ sess[2].turn_count = 0

(***************************************************************************)
(* C15: a rejected session request changes nothing: POST /api/sessions     *)
(* with an unknown persona is answered 400, DELETE /api/sessions/{id} and  *)
(* GET /api/report/{id} for an id not in the table are answered 404, and   *)
(* each leaves the session table, the agent table and the sessions as they *)
(* were; DELETE for an id of the table is answered 200 and removes that    *)
(* session and its agent, and nothing else.                                *)
(***************************************************************************)
SessionTablesUnchanged ==
    UNCHANGED <<active_sessions, session_agents, sess>>

C15_RejectedRequestsChangeNothing ==
    [][/\ \A persona_id \in WsPersonaInputs \ Personas :
             CreateSession(persona_id) =>
                rest'.status_code = 400 /\ SessionTablesUnchanged
       /\ \A session_id \in SessionIdInputs \ active_sessions :
             /\ EndSession(session_id) =>
                   rest'.status_code = 404 /\ SessionTablesUnchanged
             /\ GetReport(session_id) =>
                   rest'.status_code = 404 /\ SessionTablesUnchanged
       /\ \A session_id \in SessionIdInputs \cap active_sessions :
             EndSession(session_id) =>
                /\ rest' = Response(200, [status |-> "ended",
                                          session_id |-> session_id])
                /\ active_sessions' = active_sessions \ {session_id}
                /\ session_agents' = session_agents \ {session_id}
                /\ sess' = sess
       /\ rest_in' = rest_in + 1 /\ rest'.status_code \in {400, 404} =>
             SessionTablesUnchanged]_vars

\* Of two sessions the first was ended by DELETE, which left the second
\* and its agent; the request after it was rejected with 404.
C15_Witness ==
    /\ serving
    /\ Len(sess) = 2
    /\ active_sessions = {2}
    /\ session_agents = {2}
    /\ rest_in = 2
    /\ rest = Response(404, [detail |-> "Session not found"])

(***************************************************************************)
(* The scripts of the mock scammer (mock/scammer_api.py).  A scripted line *)
(* is the sample text named after its script and turn index.               *)
(***************************************************************************)
\* ScamScript
ScamScript(name, scam_type, messages, iocs_to_reveal, end_trigger_turns) ==
    [name |-> name, scam_type |-> scam_type, messages |-> messages,
     iocs_to_reveal |-> iocs_to_reveal,
     end_trigger_turns |-> end_trigger_turns]

LotteryScript ==
    ScamScript("KBC Lottery Scam", "lottery",
        <<Text("lottery-0", 0, 2, 0, 0),
          Text("lottery-1", 0, 0, 0, 0),
          Text("lottery-2", 0, 3, 0, 0),
          Text("lottery-3", 0, 0, 0, 0),
          Text("lottery-4", 2, 1, 0, 0),
          Text("lottery-5", 1, 1, 0, 0),
          Text("lottery-6", 0, 0, 0, 1),
          Text("lottery-7", 0, 0, 0, 0),
          Text("lottery-8", 1, 2, 0, 0),
          Text("lottery-9", 1, 1, 0, 0),
          Text("lottery-10", 1, 1, 0, 0),
          Text("lottery-11", 0, 0, 0, 0)>>,
        (5 :> <<"kbcprize2024@ybl">>) @@
        (6 :> <<"9876543210123456", "SBIN0001234">>) @@
        (7 :> <<"+91 98765 43210">>) @@
        (9 :> <<"8765432109">>),
        12)

UpiFraudScript ==
    ScamScript("Bank KYC UPI Fraud", "upi_fraud",
        <<Text("upi_fraud-0", 1, 0, 1, 0),
          Text("upi_fraud-1", 0, 0, 1, 0),
          Text("upi_fraud-2", 0, 0, 0, 0),
          Text("upi_fraud-3", 0, 0, 1, 1),
          Text("upi_fraud-4", 0, 0, 0, 0),
          Text("upi_fraud-5", 0, 0, 0, 1),
          Text("upi_fraud-6", 0, 0, 0, 0),
          Text("upi_fraud-7", 0, 0, 0, 0),
          Text("upi_fraud-8", 1, 0, 0, 0),
          Text("upi_fraud-9", 2, 0, 1, 0),
          Text("upi_fraud-10", 0, 0, 1, 0)>>,
        (5 :> <<"sbikyc.verify@oksbi">>) @@
        (7 :> <<"1122334455667788", "SBIN0000123">>) @@
        (8 :> <<"7896541230">>),
        11)

TechSupportScript ==
    ScamScript("Microsoft Tech Support Scam", "tech_support",
        <<Text("tech_support-0", 0, 0, 0, 0),
          Text("tech_support-1", 0, 0, 0, 0),
          Text("tech_support-2", 0, 0, 1, 0),
          Text("tech_support-3", 0, 0, 0, 0),
          Text("tech_support-4", 0, 0, 0, 0),
          Text("tech_support-5", 1, 0, 0, 0),
          Text("tech_support-6", 1, 0, 0, 0),
          Text("tech_support-7", 0, 0, 0, 0),
          Text("tech_support-8", 0, 0, 0, 0),
          Text("tech_support-9", 0, 0, 0, 0),
          Text("tech_support-10", 1, 0, 0, 0)>>,
        (3 :> <<"https://anydesk.com">>) @@
        (7 :> <<"microsoftsecurity@paytm", "5566778899001122", "ICIC0000456">>) @@
        (9 :> <<"+91 99887 76655">>),
        11)

SCAM_SCRIPTS ==
    [lottery |-> LotteryScript, upi_fraud |-> UpiFraudScript,
     tech_support |-> TechSupportScript]

(***************************************************************************)
(* MockScammer (mock/scammer_api.py).  get_next_message() runs in two      *)
(* segments, one on each side of its asyncio.sleep; its callers await it,  *)
(* so one call is in flight at a time.                                     *)
(***************************************************************************)
MaxMockCalls == 14  \* calls made on one mock scammer

\* list_scam_types(): the keys of SCAM_SCRIPTS
ScriptTypes == DOMAIN SCAM_SCRIPTS

ScamTypeInputs == ScriptTypes \cup {"romance"}

\* what a caller passes as honeypot_response
MockReplies == {None, Hello, Prize}

ValueError == [raised |-> "ValueError"]

\* MockScammer.__init__, for a scam type of SCAM_SCRIPTS
NewMockScammer(scam_type) ==
    [script |-> SCAM_SCRIPTS[scam_type], current_turn |-> 0,
     revealed_iocs |-> <<>>, conversation_ended |-> FALSE]

\* The indicators of the turn after the one being returned.
RevealedAtNextTurn(script, turn) ==
    IF turn + 1 \in DOMAIN script.iocs_to_reveal
    THEN script.iocs_to_reveal[turn + 1]
    ELSE <<>>

\* if self.current_turn in self.script.iocs_to_reveal: what is added
RevealedAt(script, turn) ==
    IF turn \in DOMAIN script.iocs_to_reveal
    THEN script.iocs_to_reveal[turn]
    ELSE <<>>

\* The end trigger firing one turn late.
EndTriggeredLate(script, turn) == turn > script.end_trigger_turns

\* if self.current_turn >= self.script.end_trigger_turns
EndTriggered(script, turn) == turn >= script.end_trigger_turns

\* get_next_message up to its sleep, or to its return where it does not
\* sleep: the object after it, whether it sleeps, the line it picked.
get_next_message_begin(s, honeypot_response) ==
    IF s.conversation_ended
    THEN [scammer |-> s, asleep |-> FALSE, message |-> None]
    ELSE IF s.current_turn >= Len(s.script.messages)
    THEN [scammer |-> [s EXCEPT !.conversation_ended = TRUE],
          asleep |-> FALSE, message |-> None]
    ELSE [scammer |->
              [s EXCEPT !.revealed_iocs =
                            @ \o RevealedAt(s.script, s.current_turn)],
          asleep |-> TRUE,
          message |-> s.script.messages[s.current_turn + 1]]

\* A call that returns its line without advancing the turn.
get_next_message_end_same_turn(s) == s

\* get_next_message after its sleep
get_next_message_end(s) ==
    [s EXCEPT !.current_turn = @ + 1,
              !.conversation_ended =
                  @ \/ EndTriggered(s.script, s.current_turn + 1)]

\* scammer.get_progress()
get_progress(s) ==
    [scam_type |-> s.script.scam_type, scam_name |-> s.script.name,
     current_turn |-> s.current_turn,
     total_turns |-> Len(s.script.messages),
     revealed_iocs |-> Len(s.revealed_iocs),
     ended |-> s.conversation_ended]

\* create_mock_scammer(scam_type)
CreateMockScammer(scam_type) ==
    /\ scammer = None
    /\ Len(mock_log) < MaxMockCalls
    /\ IF scam_type \in ScriptTypes
       THEN /\ scammer' = NewMockScammer(scam_type)
            /\ UNCHANGED mock_log
       ELSE /\ mock_log' = Append(mock_log, [returned |-> ValueError])
            /\ UNCHANGED scammer
    /\ UNCHANGED <<mock_call, mock_ws, notMock>>

\* await scammer.get_next_message(honeypot_response), to its sleep or return
GetNextMessage(honeypot_response) ==
    /\ scammer # None
    /\ mock_call = None
    /\ Len(mock_log) < MaxMockCalls
    /\ LET begun == get_next_message_begin(scammer, honeypot_response) IN
       /\ scammer' = begun.scammer
       /\ IF begun.asleep
          THEN /\ mock_call' = [message |-> begun.message,
                                honeypot_response |-> honeypot_response]
               /\ UNCHANGED mock_log
          ELSE /\ mock_log' = Append(mock_log, [returned |-> begun.message])
               /\ UNCHANGED mock_call
    /\ UNCHANGED <<mock_ws, notMock>>

\* the sleep of get_next_message is over: the call returns its line
GetNextWake ==
    /\ mock_call # None
    /\ scammer' = get_next_message_end(scammer)
    /\ mock_log' = Append(mock_log, [returned |-> mock_call.message])
    /\ mock_call' = None
    /\ UNCHANGED <<mock_ws, notMock>>

NextMock ==
    \/ \E scam_type \in ScamTypeInputs : CreateMockScammer(scam_type)
    \/ \E honeypot_response \in MockReplies : GetNextMessage(honeypot_response)
    \/ GetNextWake

SpecMock == InitGateway /\ [][NextMock]_vars

IsLine(entry) == entry.returned # None /\ entry.returned # ValueError

\* the lines the finished calls returned, in order
ReturnedLines == SelectSeq(mock_log, IsLine)

\* the indicators of the turns below `turn`, in order
RECURSIVE RevealedBefore(_, _)
RevealedBefore(script, turn) ==
    IF turn = 0 THEN <<>>
    ELSE RevealedBefore(script, turn - 1) \o
         (IF turn - 1 \in DOMAIN script.iocs_to_reveal
          THEN script.iocs_to_reveal[turn - 1] ELSE <<>>)

\* the turns whose line a call has picked: those returned, and the one of
\* the call asleep
TurnsBegun == scammer.current_turn + (IF mock_call # None THEN 1 ELSE 0)

\* C16: for every script the k-th successful get_next_message call returns
\* scripted line k-1 whatever reply it is given, and the revealed list is at
\* every moment the indicators of the turns whose call has begun, each once
\* and in turn order: the indicators of turn i enter it during the call that
\* returns line i, not before; for the lottery script kbcprize2024@ybl is in
\* the list exactly from turn index 5 on.
C16_ScriptedLinesAndReveals ==
    scammer # None =>
        /\ Len(ReturnedLines) = scammer.current_turn
        /\ \A k \in 1..Len(ReturnedLines) :
              ReturnedLines[k].returned = scammer.script.messages[k]
        /\ mock_call # None =>
              mock_call.message =
                  scammer.script.messages[scammer.current_turn + 1]
        /\ scammer.revealed_iocs = RevealedBefore(scammer.script, TurnsBegun)
        /\ scammer.script.scam_type = "lottery" =>
              ((\E i \in DOMAIN scammer.revealed_iocs :
                    scammer.revealed_iocs[i] = "kbcprize2024@ybl")
               <=> TurnsBegun > 5)

\* The lottery scammer asleep in the call that returns line 5, which was
\* given a reply full of scam wording: the UPI id has just been revealed.
C16_Witness ==
    /\ scammer # None
    /\ scammer.script.scam_type = "lottery"
    /\ scammer.current_turn = 5
    /\ mock_call # None
    /\ mock_call.honeypot_response = Prize
    /\ mock_call.message = LotteryScript.messages[6]
    /\ scammer.revealed_iocs = <<"kbcprize2024@ybl">>
    /\ Len(ReturnedLines) = 5

\* C17: for every script the mock scammer returns at most end_trigger_turns
\* lines; once no call is in flight and the turn counter has reached the end
\* trigger or the number of scripted lines, it reports ended (for the
\* lottery script at turn 12 at the latest); every get_next_message call on
\* an ended scammer returns no message and leaves the object, its turn
\* counter and revealed list included, as it was.
C17_EndsAndStaysEnded ==
    [][/\ scammer' # None =>
             /\ Len(ReturnedLines') <= scammer'.script.end_trigger_turns
             /\ scammer'.current_turn <= scammer'.script.end_trigger_turns
             /\ (/\ mock_call' = None
                 /\ \/ scammer'.current_turn >=
                           scammer'.script.end_trigger_turns
                    \/ scammer'.current_turn >=
                           Len(scammer'.script.messages))
                => scammer'.conversation_ended
             /\ scammer'.script.scam_type = "lottery" =>
                   /\ scammer'.current_turn <= 12
                   /\ (scammer'.current_turn = 12 /\ mock_call' = None)
                      => get_progress(scammer').ended
       /\ \A honeypot_response \in MockReplies :
             (/\ scammer # None
              /\ scammer.conversation_ended
              /\ GetNextMessage(honeypot_response))
             => /\ mock_log' = Append(mock_log, [returned |-> None])
                /\ mock_call' = None
                /\ scammer'.current_turn = scammer.current_turn
                /\ scammer'.revealed_iocs = scammer.revealed_iocs
                /\ scammer'.conversation_ended]_vars

\* The lottery scammer returned its twelve lines and ended; two more calls
\* returned no message.
C17_Witness ==
    /\ scammer # None
    /\ scammer.script.scam_type = "lottery"
    /\ scammer.conversation_ended
    /\ scammer.current_turn = 12
    /\ Len(scammer.revealed_iocs) = 5
    /\ Len(mock_log) = 14
    /\ Len(ReturnedLines) = 12
    /\ mock_log[13].returned = None
    /\ mock_log[14].returned = None

(***************************************************************************)
(* /ws/mock-scammer/{scam_type} (main.websocket_mock_scammer): one         *)
(* connection, its handler driving its own MockScammer.                    *)
(***************************************************************************)
MaxMockFrames == 1  \* frames of another type the client sends

\* the frames a client sends: honeypot_response with its content, or a
\* frame of another type
MockWsFrames ==
    {[type |-> "honeypot_response", content |-> content] :
        content \in MockReplies}
    \cup {[type |-> "ping", content |-> None]}

\* {"type": "scammer_message", "content": ..., "progress": ...}
ScriptedLineFrame(message, s) ==
    [type |-> "scammer_message", content |-> message,
     progress |-> get_progress(s)]

\* {"type": "scam_ended", "reason": "Script completed", "revealed_iocs": ...}
ScamEnded(s) ==
    [type |-> "scam_ended", reason |-> "Script completed",
     revealed_iocs |-> s.revealed_iocs]

\* while not scammer.is_ended(): where the handler goes after a frame
MockLoop(s) == IF s.conversation_ended THEN "returned" ELSE "receive"

\* accept, the scam type check, scam_started, the first get_next_message()
\* up to its sleep
MockWsConnect(scam_type) ==
    /\ mock_ws = None
    /\ scammer = None
    /\ IF scam_type \notin ScriptTypes
       THEN /\ mock_ws' =
                   [pc |-> "closed", disconnected |-> FALSE, ignored |-> 0,
                    sent |-> <<[type |-> "error", scam_type |-> scam_type]>>]
            /\ UNCHANGED <<scammer, mock_call>>
       ELSE LET begun == get_next_message_begin(NewMockScammer(scam_type),
                                                None) IN
            /\ scammer' = begun.scammer
            /\ mock_call' = [message |-> begun.message,
                             honeypot_response |-> None]
            /\ mock_ws' =
                   [pc |-> "first", disconnected |-> FALSE, ignored |-> 0,
                    sent |-> <<[type |-> "scam_started",
                                scam_type |-> scam_type,
                                scam_name |-> SCAM_SCRIPTS[scam_type].name]>>]
    /\ UNCHANGED <<mock_log, notMock>>

\* the sleep of get_next_message is over: the line is sent, the loop
\* condition is evaluated
MockWsWake ==
    /\ mock_ws # None
    /\ mock_ws.pc \in {"first", "next"}
    /\ LET s == get_next_message_end(scammer) IN
       /\ scammer' = s
       /\ mock_call' = None
       /\ mock_ws' =
              [mock_ws EXCEPT
                  !.sent = Append(@, ScriptedLineFrame(mock_call.message, s)),
                  !.pc = MockLoop(s)]
    /\ UNCHANGED <<mock_log, notMock>>

\* data = await websocket.receive_json() returns a frame
MockWsReceive(data) ==
    /\ mock_ws # None
    /\ mock_ws.pc = "receive"
    /\ IF data.type = "honeypot_response"
       THEN LET begun == get_next_message_begin(scammer, data.content) IN
            /\ scammer' = begun.scammer
            /\ IF begun.asleep
               THEN /\ mock_call' = [message |-> begun.message,
                                     honeypot_response |-> data.content]
                    /\ mock_ws' = [mock_ws EXCEPT !.pc = "next"]
               ELSE /\ mock_ws' =
                           [mock_ws EXCEPT
                               !.sent = Append(@, ScamEnded(begun.scammer)),
                               !.pc = "returned"]
                    /\ UNCHANGED mock_call
       ELSE /\ mock_ws.ignored < MaxMockFrames
            /\ mock_ws' = [mock_ws EXCEPT !.ignored = @ + 1,
                                          !.pc = MockLoop(scammer)]
            /\ UNCHANGED <<scammer, mock_call>>
    /\ UNCHANGED <<mock_log, notMock>>

\* receive_json() raises WebSocketDisconnect: the client went away
MockWsDisconnect ==
    /\ mock_ws # None
    /\ mock_ws.pc = "receive"
    /\ mock_ws' = [mock_ws EXCEPT !.pc = "returned", !.disconnected = TRUE]
    /\ UNCHANGED <<scammer, mock_call, mock_log, notMock>>

NextMockWs ==
    \/ \E scam_type \in ScamTypeInputs : MockWsConnect(scam_type)
    \/ MockWsWake
    \/ \E data \in MockWsFrames : MockWsReceive(data)
    \/ MockWsDisconnect

SpecMockWs == InitGateway /\ [][NextMockWs]_vars

\* C18: on /ws/mock-scammer, when the handler has returned and the client
\* never went away (it answered every scammer_message with a
\* honeypot_response), the last frame sent is scam_ended with reason
\* "Script completed" and the revealed indicators.
C18_EndsWithScamEnded ==
    (/\ mock_ws # None
     /\ mock_ws.pc = "returned"
     /\ ~mock_ws.disconnected)
    => mock_ws.sent[Len(mock_ws.sent)] = ScamEnded(scammer)

\* The handler returned after the twelfth line of the lottery script, every
\* line answered, the client still there: scam_started and twelve
\* scammer_message frames were sent, the last with progress.ended true, and
\* no scam_ended.
C18_ReturnsWithoutScamEnded ==
    /\ mock_ws # None
    /\ mock_ws.pc = "returned"
    /\ ~mock_ws.disconnected
    /\ mock_ws.ignored = 0
    /\ scammer.script.scam_type = "lottery"
    /\ Len(mock_ws.sent) = 13
    /\ mock_ws.sent[13].type = "scammer_message"
    /\ mock_ws.sent[13].content = LotteryScript.messages[12]
    /\ mock_ws.sent[13].progress.ended
    /\ \A i \in DOMAIN mock_ws.sent : mock_ws.sent[i].type # "scam_ended"

\* No run of the handler sends a scam_ended frame, for any script.
C18_ScamEndedNeverSent ==
    mock_ws # None =>
        \A i \in DOMAIN mock_ws.sent : mock_ws.sent[i].type # "scam_ended"

(***************************************************************************)
(* /ws/auto-demo/{persona_id}/{scam_type} (main.websocket_auto_demo): one  *)
(* connection.  Its session and agent are the handler's own -- they are    *)
(* not put in active_sessions -- and so is its MockScammer.  The handler   *)
(* is suspended in get_next_message's sleep, in the agent's two LLM calls  *)
(* and in the typing delay.                                                *)
(***************************************************************************)
MaxDemoFailures == 1  \* generate() calls that fail in one demo

DemoConn == 1

\* what the demo leaves alone
notDemo ==
    <<bucketVars, switch_history, swVars, apiVars, restVars, active_sessions,
      session_agents, frames_in, mock_log, libVars>>

\* the locals of the handler the connection record has no place for
DemoLocals(failures, response) ==
    [failures |-> failures, response |-> response]

\* {"type": "demo_ended", "report": report.model_dump(mode="json")}
DemoEnded(session_id, session) ==
    [type |-> "demo_ended", report |-> from_session(session_id, session)]

\* accept, the two checks, the session, agent and scammer, demo_started,
\* the first get_next_message() up to its sleep
DemoConnect(persona_id, scam_type) ==
    /\ conn[DemoConn].pc = "closed"
    /\ ws_sent[DemoConn] = <<>>
    /\ scammer = None
    /\ IF persona_id \notin Personas
       THEN /\ Send(DemoConn, <<[type |-> "error", error |-> "Unknown persona"]>>)
            /\ UNCHANGED <<sess, conn, scammer, mock_call, mock_ws>>
       ELSE IF scam_type \notin ScriptTypes
       THEN /\ Send(DemoConn,
                    <<[type |-> "error", error |-> "Unknown scam type"]>>)
            /\ UNCHANGED <<sess, conn, scammer, mock_call, mock_ws>>
       ELSE LET session_id == Len(sess) + 1
                begun == get_next_message_begin(NewMockScammer(scam_type),
                                                None)
            IN  /\ sess' = Append(sess, Session(persona_id))
                /\ conn' = [conn EXCEPT ![DemoConn] =
                              [NoConn EXCEPT !.pc = "scammer",
                                             !.session = session_id]]
                /\ scammer' = begun.scammer
                /\ mock_call' = [message |-> begun.message,
                                 honeypot_response |-> None]
                /\ mock_ws' = DemoLocals(0, None)
                /\ Send(DemoConn,
                        <<[type |-> "demo_started", session_id |-> session_id,
                           persona |-> persona_id,
                           scam_name |-> SCAM_SCRIPTS[scam_type].name]>>)
    /\ UNCHANGED <<classify_calls, notDemo>>

\* the sleep of get_next_message is over: the scammer's line is sent to the
\* client and given to the agent, up to its first LLM call
DemoScammerWake ==
    /\ conn[DemoConn].pc = "scammer"
    /\ scammer' = get_next_message_end(scammer)
    /\ mock_call' = None
    /\ Send(DemoConn, <<[type |-> "scammer_message",
                         content |-> mock_call.message]>>)
    /\ LET text == mock_call.message
           s1 == TurnBegin(sess[conn[DemoConn].session], text)
       IN  IF s1.scam_classification # None
           THEN /\ Evaluate(DemoConn, s1, text)
                /\ UNCHANGED classify_calls
           ELSE /\ classify_calls' = classify_calls + 1
                /\ IF ClearRegexMatch(text)
                   THEN Evaluate(DemoConn,
                                 [s1 EXCEPT !.scam_classification =
                                               regex_classify(text)],
                                 text)
                   ELSE /\ sess' = [sess EXCEPT ![conn[DemoConn].session] = s1]
                        /\ conn' = [conn EXCEPT ![DemoConn] =
                                      [@ EXCEPT !.pc = "classify",
                                                !.msg = text]]
    /\ UNCHANGED <<mock_ws, notDemo>>

\* generate() returns or raises: process_scammer_message returns the reply
\* or a fallback line, and the handler sleeps the typing delay
DemoGenerated(outcome) ==
    /\ conn[DemoConn].pc = "generate"
    /\ outcome.kind = "raise" => mock_ws.failures < MaxDemoFailures
    /\ LET session == sess[conn[DemoConn].session]
           lines == FallbackLines(session)
       IN  \E raw_response \in
                 IF outcome.kind = "raise"
                 THEN SeqToSet(lines)
                 ELSE {CleanResponse(outcome)} :
              /\ sess' = [sess EXCEPT ![conn[DemoConn].session] =
                                         TurnReply(session, raw_response)]
              /\ mock_ws' =
                     DemoLocals(mock_ws.failures +
                                    (IF outcome.kind = "raise" THEN 1 ELSE 0),
                                humanize(raw_response))
    /\ conn' = [conn EXCEPT ![DemoConn] = [@ EXCEPT !.pc = "typing"]]
    /\ UNCHANGED <<ws_sent, scammer, mock_call, classify_calls, notDemo>>

\* the typing delay is over: the frames of the turn, then the loop
\* condition; the next get_next_message() up to its sleep, or demo_ended
DemoTyped ==
    /\ conn[DemoConn].pc = "typing"
    /\ LET session_id == conn[DemoConn].session
           frames == TurnFrames(conn[DemoConn].signal, mock_ws.response,
                                sess[session_id].current_mode,
                                to_list(extract_all(conn[DemoConn].msg)))
           begun == get_next_message_begin(scammer, None)
       IN  IF ~scammer.conversation_ended /\ begun.asleep
           THEN /\ scammer' = begun.scammer
                /\ mock_call' = [message |-> begun.message,
                                 honeypot_response |-> None]
                /\ Send(DemoConn, frames)
                /\ conn' = [conn EXCEPT ![DemoConn] =
                              [@ EXCEPT !.pc = "scammer", !.msg = None,
                                        !.signal = None]]
           ELSE /\ scammer' = IF scammer.conversation_ended
                              THEN scammer ELSE begun.scammer
                /\ UNCHANGED mock_call
                /\ Send(DemoConn,
                        Append(frames,
                               DemoEnded(session_id, sess[session_id])))
                /\ conn' = [conn EXCEPT ![DemoConn] =
                              [NoConn EXCEPT !.session = session_id]]
    /\ mock_ws' = DemoLocals(mock_ws.failures, None)
    /\ UNCHANGED <<sess, classify_calls, notDemo>>

\* the scripts' own lines decide every turn's entities and signals
DemoGenerateOutcomes == {LLMText("Oh, tell me more about it", TRUE), LLMError}

NextDemo ==
    \/ \E persona_id \in WsPersonaInputs, scam_type \in ScamTypeInputs :
          DemoConnect(persona_id, scam_type)
    \/ DemoScammerWake
    \/ \E outcome \in ClassifyOutcomes : WsClassified(DemoConn, outcome)
    \/ \E outcome \in DemoGenerateOutcomes : DemoGenerated(outcome)
    \/ DemoTyped

SpecDemo == InitGateway /\ [][NextDemo]_vars

\* the frames the demo connection sent
DemoFrames == ws_sent[DemoConn]

DemoStarted == DemoFrames # <<>> /\ DemoFrames[1].type = "demo_started"

FramesOfType(frames, type) == {i \in DOMAIN frames : frames[i].type = type}

\* The mode the honeypot was in before the frame at position i: that of the
\* last honeypot_response before it, PATIENCE before the first.
ModeBefore(frames, i) ==
    LET earlier == {j \in FramesOfType(frames, "honeypot_response") : j < i}
    IN  IF earlier = {} THEN PATIENCE
        ELSE frames[CHOOSE j \in earlier : \A k \in earlier : k <= j].mode

\* How far the demo has come: four steps to a scripted line, and where the
\* handler stands within the line's turn.
DemoProgress ==
    4 * (IF scammer = None THEN 0 ELSE TurnsBegun)
    + (CASE conn[DemoConn].pc = "scammer" -> 0
         [] conn[DemoConn].pc = "classify" -> 1
         [] conn[DemoConn].pc = "generate" -> 2
         [] conn[DemoConn].pc = "typing" -> 3
         [] OTHER -> IF DemoFrames = <<>> THEN 0 ELSE 4)

\* The handler stands where one of its steps takes it on: asleep in a
\* get_next_message() call, waiting for one of the agent's two LLM calls,
\* or in the typing delay.  Each of these steps is guarded by the position
\* alone.
DemoCanStep ==
    \/ conn[DemoConn].pc = "scammer" /\ mock_call # None
    \/ conn[DemoConn].pc = "classify"
    \/ conn[DemoConn].pc = "generate"
    \/ conn[DemoConn].pc = "typing" /\ mock_ws.response # None

\* the frames of a demo under way or finished are well formed
DemoFramesInOrder ==
    LET frames == DemoFrames
        n == Len(frames)
        closed == conn[DemoConn].pc = "closed"
    IN  /\ \A i \in FramesOfType(frames, "scammer_message") :
              \* answered by one honeypot_response, a status_update before
              \* it exactly when the mode changes in this turn
              /\ i < n =>
                    LET j == IF frames[i + 1].type = "status_update"
                             THEN i + 2 ELSE i + 1
                    IN  /\ j <= n
                        /\ frames[j].type = "honeypot_response"
                        /\ (j = i + 2) <=>
                              (frames[j].mode # ModeBefore(frames, i))
                        /\ j = i + 2 =>
                              frames[i + 1].new_mode = frames[j].mode
                        /\ j < n =>
                              frames[j + 1].type \in
                                  {"scammer_message", "demo_ended"}
              /\ i = n => ~closed
              /\ frames[i - 1].type \in {"demo_started", "honeypot_response"}
        /\ \A i \in FramesOfType(frames, "honeypot_response") :
              \/ frames[i - 1].type = "scammer_message"
              \/ /\ frames[i - 1].type = "status_update"
                 /\ frames[i - 2].type = "scammer_message"
        /\ \A i \in FramesOfType(frames, "status_update") :
              i < n /\ frames[i + 1].type = "honeypot_response"
        /\ Cardinality(FramesOfType(frames, "scammer_message"))
              <= scammer.script.end_trigger_turns
        /\ FramesOfType(frames, "demo_ended") = IF closed THEN {n} ELSE {}
        /\ FramesOfType(frames, "error") = {}
        /\ closed =>
              frames[n] = DemoEnded(conn[DemoConn].session,
                                    sess[conn[DemoConn].session])

\* C19: on /ws/auto-demo with a valid persona and scam type the demo always
\* finishes: every step of the handler brings it forward, its progress is
\* bounded by the script's end trigger, and until it has returned it has a
\* step to take; every scammer_message is followed by exactly one
\* honeypot_response, preceded by a status_update exactly on a turn that
\* switches the mode, also when generation fails; at most end_trigger_turns
\* scammer lines are sent, and the handler returns having sent exactly one
\* demo_ended, with the report of its session, as the final frame.
C19_DemoFinishes ==
    [][/\ DemoProgress' > DemoProgress
       /\ DemoStarted' =>
             /\ DemoProgress' <= 4 * scammer'.script.end_trigger_turns + 4
             /\ conn'[DemoConn].pc # "closed" => DemoCanStep'
             /\ DemoFramesInOrder']_vars

\* The lottery demo has finished: twelve scammer lines, each answered, one
\* answer a fallback line after a failed generation, one turn switching
\* the mode, demo_ended last.
C19_Witness ==
    /\ DemoStarted
    /\ conn[DemoConn].pc = "closed"
    /\ scammer.script.scam_type = "lottery"
    /\ mock_ws.failures = 1
    /\ Cardinality(FramesOfType(DemoFrames, "scammer_message")) = 12
    /\ Cardinality(FramesOfType(DemoFrames, "honeypot_response")) = 12
    /\ FramesOfType(DemoFrames, "status_update") # {}
    /\ DemoFrames[Len(DemoFrames)].type = "demo_ended"
    /\ Len(DemoFrames[Len(DemoFrames)].report.conversation_transcript) = 24

(***************************************************************************)
(* /ws/voice/{persona_id} (main.websocket_voice): one connection.  A       *)
(* transcript is analysed and its frames are sent before the agent's turn  *)
(* begins; the handler is suspended in the agent's two LLM calls.          *)
(* generate() and classify_with_structured_output() raise RateLimitExceeded*)
(* or LLMError and nothing else (config.py wraps every other exception),   *)
(* and process_scammer_message catches both.                               *)
(***************************************************************************)
MaxVoiceFrames == 3  \* frames a client sends on the voice connection

VoiceConn == 1

\* str(uuid4()): the key of the connection's entry in voice_sessions
VoiceKey == UuidId

\* what the voice connection leaves alone
notVoice ==
    <<bucketVars, switch_history, swVars, expected_key, api, api_in, callbacks,
      callbacks_run, restVars, mockVars, libVars, active_sessions,
      session_agents>>

VoiceTexts == {Hello, Prize}

VoiceFrames ==
    {[type |-> "transcript", content |-> text] : text \in VoiceTexts}
    \cup {[type |-> "ping", content |-> None]}

\* greetings.get(persona_id, "Hello?")
Greeting(persona_id) ==
    CASE persona_id = "elderly_widow" -> "Hello? Who is this calling?"
      [] persona_id = "young_professional" -> "Yeah, hello?"
      [] persona_id = "small_business_owner" -> "Hello, this is Priya speaking."
      [] OTHER -> "Hello?"

\* fallback_responses of the handler's "except Exception" around the
\* agent's turn
VoiceCannedLines ==
    {"Oh my, that sounds very concerning! Tell me more...",
     "I'm so confused, can you explain that again?",
     "What should I do? This is so worrying!",
     "I don't understand these technical things. Please help me!",
     "Who did you say you were calling from?",
     "My Ramesh used to handle all these things... What should I do?"}

\* ExtractedEntities.total_count
total_count(e) ==
    Len(e.upi_ids) + Len(e.phone_numbers) + Len(e.bank_accounts)
    + Len(e.crypto_addresses) + Len(e.urls) + Len(e.email_addresses)

\* Frames for a transcript with a mode_switch whenever the detector flags it.
TranscriptFramesEveryFlag(analysis, entities, is_scammer_mode) ==
    <<[type |-> "scam_analysis", score |-> analysis.score,
       scam_type |-> analysis.scam_type, indicators |-> analysis.indicators,
       confidence |-> analysis.confidence]>>
    \o (IF analysis.is_scammer
        THEN <<[type |-> "mode_switch", is_scammer |-> TRUE,
                reason |-> analysis.scam_type]>>
        ELSE <<>>)

\* Frames sent for a transcript only when the detector flags it.
TranscriptFramesWhenFlagged(analysis, entities, is_scammer_mode) ==
    IF analysis.is_scammer
    THEN <<[type |-> "scam_analysis", score |-> analysis.score,
            scam_type |-> analysis.scam_type,
            indicators |-> analysis.indicators,
            confidence |-> analysis.confidence]>>
    ELSE <<>>

\* The frames sent for a transcript before the agent's turn: scam_analysis,
\* entities_found when there are entities, mode_switch the first time the
\* detector flags a scammer.
TranscriptFrames(analysis, entities, is_scammer_mode) ==
    <<[type |-> "scam_analysis", score |-> analysis.score,
       scam_type |-> analysis.scam_type, indicators |-> analysis.indicators,
       confidence |-> analysis.confidence]>>
    \o (IF total_count(entities) > 0
        THEN <<[type |-> "entities_found",
                entities |->
                    [upi_ids |-> entities.upi_ids,
                     phone_numbers |-> entities.phone_numbers,
                     bank_accounts |->
                         [i \in 1..Len(entities.bank_accounts) |->
                             entities.bank_accounts[i].account_number],
                     crypto_addresses |->
                         [i \in 1..Len(entities.crypto_addresses) |->
                             entities.crypto_addresses[i].address],
                     urls |-> entities.urls,
                     emails |-> entities.email_addresses]]>>
        ELSE <<>>)
    \o (IF analysis.is_scammer /\ ~is_scammer_mode
        THEN <<[type |-> "mode_switch", is_scammer |-> TRUE,
                reason |-> analysis.scam_type]>>
        ELSE <<>>)

\* A connect that also enters its session in the active-session table.
VoiceConnectRegistered(persona_id) ==
    /\ conn[VoiceConn].pc = "closed"
    /\ ws_sent[VoiceConn] = <<>>
    /\ IF persona_id \notin Personas
       THEN /\ Send(VoiceConn,
                    <<[type |-> "error", message |-> "Unknown persona"]>>)
            /\ UNCHANGED <<sess, conn, voice_sessions, active_sessions,
                           session_agents>>
       ELSE LET session_id == Len(sess) + 1
            IN  /\ sess' = Append(sess, Session(persona_id))
                /\ voice_sessions' =
                      [voice_sessions EXCEPT ![VoiceKey] =
                          [detector |-> create_detector,
                           session |-> session_id, agent |-> session_id,
                           is_scammer_mode |-> FALSE]]
                /\ active_sessions' = active_sessions \cup {session_id}
                /\ session_agents' = session_agents \cup {session_id}
                /\ conn' = [conn EXCEPT ![VoiceConn] =
                              [NoConn EXCEPT !.pc = "recv",
                                             !.session = session_id]]
                /\ Send(VoiceConn,
                        <<[type |-> "session_started",
                           session_id |-> VoiceKey, persona |-> persona_id],
                          [type |-> "ai_response",
                           content |-> Greeting(persona_id),
                           is_greeting |-> TRUE]>>)
    /\ UNCHANGED <<frames_in, classify_calls, bucketVars, switch_history,
                   swVars, expected_key, api, api_in, callbacks, callbacks_run,
                   restVars, mockVars, libVars>>

\* accept, the persona check, the session and its entry in voice_sessions,
\* session_started and the greeting
VoiceConnect(persona_id) ==
    /\ conn[VoiceConn].pc = "closed"
    /\ ws_sent[VoiceConn] = <<>>
    /\ IF persona_id \notin Personas
       THEN /\ Send(VoiceConn,
                    <<[type |-> "error", message |-> "Unknown persona"]>>)
            /\ UNCHANGED <<sess, conn, voice_sessions>>
       ELSE LET session_id == Len(sess) + 1
            IN  /\ sess' = Append(sess, Session(persona_id))
                /\ voice_sessions' =
                      [voice_sessions EXCEPT ![VoiceKey] =
                          [detector |-> create_detector,
                           session |-> session_id, agent |-> session_id,
                           is_scammer_mode |-> FALSE]]
                /\ conn' = [conn EXCEPT ![VoiceConn] =
                              [NoConn EXCEPT !.pc = "recv",
                                             !.session = session_id]]
                /\ Send(VoiceConn,
                        <<[type |-> "session_started",
                           session_id |-> VoiceKey, persona |-> persona_id],
                          [type |-> "ai_response",
                           content |-> Greeting(persona_id),
                           is_greeting |-> TRUE]>>)
    /\ UNCHANGED <<frames_in, classify_calls, notVoice>>

\* receive_json() returns a frame: for a transcript the analysis, its
\* frames, and the agent's turn up to its first LLM call
VoiceReceive(data) ==
    /\ conn[VoiceConn].pc = "recv"
    /\ frames_in' = frames_in + 1
    /\ IF data.type = "transcript"
       THEN LET transcript == data.content
                entry == voice_sessions[VoiceKey]
                d == detector_analyze(entry.detector, transcript)
                s1 == TurnBegin(sess[conn[VoiceConn].session], transcript)
            IN  /\ voice_sessions' =
                      [voice_sessions EXCEPT ![VoiceKey] =
                          [entry EXCEPT
                              !.detector = d.detector,
                              !.is_scammer_mode = @ \/ d.analysis.is_scammer]]
                /\ Send(VoiceConn,
                        TranscriptFrames(d.analysis, extract_all(transcript),
                                         entry.is_scammer_mode))
                /\ IF s1.scam_classification # None
                   THEN /\ Evaluate(VoiceConn, s1, transcript)
                        /\ UNCHANGED classify_calls
                   ELSE /\ classify_calls' = classify_calls + 1
                        /\ IF ClearRegexMatch(transcript)
                           THEN Evaluate(VoiceConn,
                                         [s1 EXCEPT !.scam_classification =
                                                 regex_classify(transcript)],
                                         transcript)
                           ELSE /\ sess' = [sess EXCEPT
                                               ![conn[VoiceConn].session] = s1]
                                /\ conn' = [conn EXCEPT ![VoiceConn] =
                                              [@ EXCEPT !.pc = "classify",
                                                        !.msg = transcript]]
       ELSE UNCHANGED <<sess, conn, ws_sent, voice_sessions, classify_calls>>
    /\ UNCHANGED notVoice

\* classify_scam() returns to the agent's turn
VoiceClassified(outcome) ==
    /\ conn[VoiceConn].pc = "classify"
    /\ voice_sessions[VoiceKey] # NoEntry
    /\ WsClassified(VoiceConn, outcome)

\* generate() returns or raises: process_scammer_message returns the reply
\* or the agent's fallback line, sent as ai_response with its typing delay
VoiceGenerated(outcome) ==
    /\ conn[VoiceConn].pc = "generate"
    /\ LET session == sess[conn[VoiceConn].session]
       IN  \E raw_response \in
                 IF outcome.kind = "raise"
                 THEN SeqToSet(FallbackLines(session))
                 ELSE {CleanResponse(outcome)} :
              /\ sess' = [sess EXCEPT ![conn[VoiceConn].session] =
                                         TurnReply(session, raw_response)]
              /\ Send(VoiceConn,
                      <<[type |-> "ai_response",
                         content |-> humanize(raw_response),
                         typing_delay |-> TRUE]>>)
    /\ conn' = [conn EXCEPT ![VoiceConn] =
                  [@ EXCEPT !.pc = "recv", !.msg = None, !.signal = None]]
    /\ UNCHANGED <<voice_sessions, frames_in, classify_calls, notVoice>>

\* WebSocketDisconnect out of receive_json(): the entry is deleted
VoiceDisconnect ==
    /\ conn[VoiceConn].pc = "recv"
    /\ conn' = [conn EXCEPT ![VoiceConn] = [@ EXCEPT !.pc = "closed"]]
    /\ voice_sessions' = [voice_sessions EXCEPT ![VoiceKey] = NoEntry]
    /\ UNCHANGED <<sess, ws_sent, frames_in, classify_calls, notVoice>>

NextVoice ==
    \/ \E persona_id \in PersonaInputs : VoiceConnect(persona_id)
    \/ \E data \in VoiceFrames :
          frames_in < MaxVoiceFrames /\ VoiceReceive(data)
    \/ \E outcome \in ClassifyOutcomes : VoiceClassified(outcome)
    \/ \E outcome \in GenerateOutcomes : VoiceGenerated(outcome)
    \/ VoiceDisconnect

SpecVoice == InitGateway /\ [][NextVoice]_vars

\* the frames of a type among those a step sends
CountOfType(frames, type) == Cardinality(FramesOfType(frames, type))

\* the ai_response contents the agent's own fallback gives for a session
AgentFallbackContents(session) ==
    {humanize(line) : line \in SeqToSet(FallbackLines(session))}

MaxVoiceCallFrames == 7  \* transcripts of the longer call

VoiceCallClassifyOutcomes == {LLMNoJson}

VoiceCallGenerateOutcomes == {LLMText("Oh, tell me more about it", TRUE)}

NextVoiceCall ==
    \/ VoiceConnect("elderly_widow")
    \/ \E text \in VoiceTexts :
          /\ frames_in < MaxVoiceCallFrames
          /\ VoiceReceive([type |-> "transcript", content |-> text])
    \/ \E outcome \in VoiceCallClassifyOutcomes : VoiceClassified(outcome)
    \/ \E outcome \in VoiceCallGenerateOutcomes : VoiceGenerated(outcome)

SpecVoiceCall == InitGateway /\ [][NextVoiceCall]_vars

\* the verdict of the detector of the voice connection on a transcript
VoiceVerdict(transcript) ==
    detector_analyze(voice_sessions[VoiceKey].detector, transcript)
        .analysis.is_scammer

\* C21: on /ws/voice the mode_switch frame is sent at most once per
\* connection: a transcript step sends it exactly when the verdict on the
\* transcript is is_scammer and no mode_switch has been sent on the
\* connection before, no other step sends it, and so later transcripts
\* never bring a second one, whatever their score.
C21_ModeSwitchOnce ==
    [][LET new == NewFrames(VoiceConn) IN
       /\ \A data \in VoiceFrames :
             (data.type = "transcript" /\ VoiceReceive(data))
             => /\ CountOfType(new, "mode_switch") =
                      IF /\ VoiceVerdict(data.content)
                         /\ CountOfType(ws_sent[VoiceConn], "mode_switch") = 0
                      THEN 1 ELSE 0
                /\ \A i \in FramesOfType(new, "mode_switch") :
                      new[i].is_scammer
       /\ CountOfType(new, "mode_switch") > 0 =>
             conn[VoiceConn].pc = "recv" /\ frames_in' = frames_in + 1
       /\ CountOfType(ws_sent'[VoiceConn], "mode_switch") <= 1
       /\ voice_sessions'[VoiceKey] # NoEntry =>
             (voice_sessions'[VoiceKey].is_scammer_mode
              <=> CountOfType(ws_sent'[VoiceConn], "mode_switch") = 1)]_vars

\* Seven transcripts were answered: one mode_switch was sent; a transcript
\* after it was not flagged (its confidence is below "high"), and a later
\* one was flagged again.
C21_Witness ==
    /\ conn[VoiceConn].pc = "recv"
    /\ frames_in = 7
    /\ CountOfType(ws_sent[VoiceConn], "scam_analysis") = 7
    /\ CountOfType(ws_sent[VoiceConn], "mode_switch") = 1
    /\ LET frames == ws_sent[VoiceConn]
           analyses == FramesOfType(frames, "scam_analysis")
           switch == CHOOSE i \in FramesOfType(frames, "mode_switch") : TRUE
       IN  \E i, j \in analyses :
              /\ switch < i /\ i < j
              /\ frames[i].confidence # "high"
              /\ frames[j].confidence = "high"
    /\ voice_sessions[VoiceKey].is_scammer_mode

(***************************************************************************)
(* A voice detector fed transcript segments (voice/detector.py).           *)
(***************************************************************************)

MaxDetectorSegments == 6

notDetector == <<notLib, graphVars, storeVars, lib_classifier, lib_call>>

DetectorThresholds == {MediumFrom, DefaultThreshold}

DetectorTexts == {Hello, Urgent, Prize}

\* detector = create_detector(threshold)
CreateDetector(threshold) ==
    /\ lib_detector = None
    /\ lib_detector' = VoiceScamDetector(threshold)
    /\ UNCHANGED <<lib_analysis, notDetector>>

\* analysis = detector.analyze(transcript)
Analyze(transcript) ==
    /\ lib_detector # None
    /\ Len(lib_detector.history) < MaxDetectorSegments
    /\ LET done == detector_analyze(lib_detector, transcript) IN
       /\ lib_detector' = done.detector
       /\ lib_analysis' = done.analysis
    /\ UNCHANGED notDetector

NextDetector ==
    \/ \E threshold \in DetectorThresholds : CreateDetector(threshold)
    \/ \E transcript \in DetectorTexts : Analyze(transcript)

SpecDetector == InitGateway /\ [][NextDetector]_vars

\* what one analyze() call does to the scores; reported says how the score
\* of the analysis is to follow from the final score
AnalyzeScores(reported(_, _)) ==
    (lib_detector # None /\ lib_detector' # lib_detector) =>
        LET segment == SegmentScore(lib_detector'.history) * ScoreUnit
            cumulative == lib_detector'.cumulative_score
            final == Max(segment, cumulative)
            One == ScoreCap * ScoreUnit
        IN  /\ segment <= One
            /\ cumulative * 10 = CumulativeKeep * lib_detector.cumulative_score
                                 + CumulativeTake * segment
            /\ reported(lib_analysis'.score, final)
            /\ lib_analysis'.is_scammer
                   <=> (final >= lib_detector.threshold * ScoreUnit)
            /\ 0 <= cumulative /\ cumulative <= One
            /\ 0 <= final /\ final <= One

\* C22 as stated: every analyze() call first sets cumulative to
\* 0.7 * cumulative + 0.3 * segment score, the segment score being at most
\* 1.0, then reports the final score max(segment score, cumulative) itself,
\* and is_scammer exactly when that final score is at least the threshold;
\* cumulative and final score stay within [0, 1].
C22_ReportsFinalScore ==
    [][AnalyzeScores(LAMBDA score, final : score * 10 * ScoreUnit = final)]_vars

\* C22, amended: every analyze() call first sets cumulative to
\* 0.7 * cumulative + 0.3 * segment score, the segment score being at most
\* 1.0; the score it reports is max(segment score, cumulative) rounded to
\* two decimals, and is_scammer is true exactly when the unrounded maximum
\* is at least the threshold; cumulative and final score stay within [0, 1].
C22_ReportsRoundedFinalScore ==
    [][AnalyzeScores(LAMBDA score, final : score = Round2(final))]_vars

\* The sixth segment after a prize call and five greetings: the segment
\* scores 0, the cumulative score 0.582351 is the final score, reported as
\* 0.58, and a detector with threshold 0.3 flags the caller.
C22_Witness ==
    /\ lib_detector # None
    /\ lib_detector.history = <<Prize, Hello, Hello, Hello, Hello, Hello>>
    /\ SegmentScore(lib_detector.history) = 0
    /\ lib_detector.cumulative_score = 58235100
    /\ lib_analysis.score = 58
    /\ lib_analysis.is_scammer

(***************************************************************************)
(* The threat graph (intel/threat_graph.py).  A node id f"{type}:{value}"  *)
(* is the pair <<type, value>>: no node type holds a ":", so that          *)
(* split(":", 1) gives the pair back; "" is the empty tuple.  Weights are  *)
(* in thousandths.  A dict of entities {type: [values]} is the sequence of *)
(* its (type, value) pairs in the order items() and the lists give them.   *)
(***************************************************************************)

MaxEdgeWeight == 3000

NodeId(node_type, value) == <<node_type, value>>

NoNodeId == <<>>

ExtractedWeight == 1000

CoOccurredWeight == 500

\* bool(self._graph), as `if not self._graph` takes it: False for None, and
\* for a DiGraph its __len__, the number of nodes (the class has no
\* __bool__), so that a graph without nodes is false.
Truthy(graph) == graph # None /\ Len(graph.order) > 0

\* DiGraph.add_node(n, **attr): a new node gets attr, an old one has its
\* attributes updated with attr
nx_add_node(graph, n, attr) ==
    IF n \in DOMAIN graph.node
    THEN [graph EXCEPT !.node[n] = attr @@ @]
    ELSE [graph EXCEPT !.order = Append(@, n), !.node = (n :> attr) @@ @]

\* DiGraph.add_edge(u, v, **attr): adds the nodes that are missing
nx_add_edge(graph, u, v, attr) ==
    LET with_u == IF u \in DOMAIN graph.node THEN graph
                  ELSE nx_add_node(graph, u, NoKeys)
        with_v == IF v \in DOMAIN with_u.node THEN with_u
                  ELSE nx_add_node(with_u, v, NoKeys)
        e == <<u, v>>
    IN  [with_v EXCEPT !.edge =
            (e :> (IF e \in DOMAIN @ THEN attr @@ @[e] ELSE attr)) @@ @]

\* ThreatGraph.add_node: the graph after the call and the node id returned
add_node(graph, node_type, value, metadata) ==
    IF ~Truthy(graph)
    THEN [graph |-> graph, returned |-> NoNodeId]
    ELSE [graph |-> nx_add_node(graph, NodeId(node_type, value),
                                [type |-> node_type, value |-> value]
                                    @@ metadata),
          returned |-> NodeId(node_type, value)]

\* ThreatGraph.add_edge
add_edge(graph, source_type, source_value, target_type, target_value, relationship, weight) ==
    IF ~Truthy(graph)
    THEN [graph |-> graph, returned |-> FALSE]
    ELSE
        LET src_id == NodeId(source_type, source_value)
            tgt_id == NodeId(target_type, target_value)
            with_src == IF src_id \notin DOMAIN graph.node
                        THEN add_node(graph, source_type, source_value,
                                      NoKeys).graph
                        ELSE graph
            with_tgt == IF tgt_id \notin DOMAIN with_src.node
                        THEN add_node(with_src, target_type, target_value,
                                      NoKeys).graph
                        ELSE with_src
            e == <<src_id, tgt_id>>
        IN  [graph |->
                IF e \in DOMAIN with_tgt.edge
                THEN [with_tgt EXCEPT !.edge[e].weight = @ + weight]
                ELSE nx_add_edge(with_tgt, src_id, tgt_id,
                                 [relationship |-> relationship,
                                  weight |-> weight]),
             returned |-> TRUE]

\* add_session_entities, first loop: the entity nodes and the "extracted"
\* edges, and the list all_entity_ids
RECURSIVE LinkToSession(_, _, _, _)
LinkToSession(graph, session_id, pairs, all_entity_ids) ==
    IF pairs = <<>>
    THEN [graph |-> graph, all_entity_ids |-> all_entity_ids]
    ELSE
        LET entity_type == Head(pairs)[1]
            value == Head(pairs)[2]
            added == add_node(graph, entity_type, value, NoKeys)
            linked == add_edge(added.graph, "session", session_id,
                               entity_type, value, "extracted",
                               ExtractedWeight)
        IN  LinkToSession(linked.graph, session_id, Tail(pairs),
                          Append(all_entity_ids, added.returned))

\* add_session_entities, second loop: id1 is linked to each id2 after it
RECURSIVE LinkCoOccurred(_, _, _, _)
LinkCoOccurred(graph, ids, i, j) ==
    IF i > Len(ids) THEN graph
    ELSE IF j > Len(ids) THEN LinkCoOccurred(graph, ids, i + 1, i + 2)
    ELSE LinkCoOccurred(
             add_edge(graph, ids[i][1], ids[i][2], ids[j][1], ids[j][2],
                      "co_occurred", CoOccurredWeight).graph,
             ids, i, j + 1)

\* ThreatGraph.add_session_entities
add_session_entities(graph, session_id, pairs) ==
    IF ~Truthy(graph) THEN graph
    ELSE
        LET with_session == add_node(graph, "session", session_id,
                                     NoKeys).graph
            linked == LinkToSession(with_session, session_id, pairs, <<>>)
        IN  LinkCoOccurred(linked.graph, linked.all_entity_ids, 1, 2)

IsSessionNode(graph, n) ==
    "type" \in DOMAIN graph.node[n] /\ graph.node[n].type = "session"

\* ThreatGraph.get_session_entities: the dict it returns, as the set of its
\* (type, value) pairs
get_session_entities(graph, session_id) ==
    IF ~Truthy(graph) THEN {}
    ELSE IF NodeId("session", session_id) \notin DOMAIN graph.node THEN {}
    ELSE {e[2] : e \in {d \in DOMAIN graph.edge :
                           /\ d[1] = NodeId("session", session_id)
                           /\ d[2][1] # "session"}}

\* The loop with no session left out for being in a campaign already.
RECURSIVE CampaignsFromEverySeed(_, _, _, _, _)
CampaignsFromEverySeed(graph, sessions, i, processed, min_shared_entities) ==
    IF i > Len(sessions) THEN <<>>
    ELSE
        LET session == sessions[i]
            session_entities == get_session_entities(graph, session[2])
            Related(other_session) ==
                /\ other_session # session
                /\ Cardinality(session_entities \cap
                       get_session_entities(graph, other_session[2]))
                   >= min_shared_entities
            related_sessions == <<session>> \o SelectSeq(sessions, Related)
        IN  (IF Len(related_sessions) > 1
             THEN <<[sessions |-> [k \in 1..Len(related_sessions) |->
                                      related_sessions[k][2]],
                     session_count |-> Len(related_sessions),
                     shared_entities |->
                         UNION {get_session_entities(graph, rs[2]) :
                                   rs \in SeqToSet(related_sessions)}]>>
             ELSE <<>>)
            \o CampaignsFromEverySeed(graph, sessions, i + 1, processed,
                                      min_shared_entities)

\* find_campaigns, the loop over the sessions from the i-th on
RECURSIVE CampaignsFrom(_, _, _, _, _)
CampaignsFrom(graph, sessions, i, processed, min_shared_entities) ==
    IF i > Len(sessions) THEN <<>>
    ELSE IF sessions[i] \in processed
    THEN CampaignsFrom(graph, sessions, i + 1, processed,
                       min_shared_entities)
    ELSE
        LET session == sessions[i]
            session_entities == get_session_entities(graph, session[2])
            Related(other_session) ==
                /\ other_session # session
                /\ other_session \notin processed
                /\ Cardinality(session_entities \cap
                       get_session_entities(graph, other_session[2]))
                   >= min_shared_entities
            related_sessions == <<session>> \o SelectSeq(sessions, Related)
        IN  IF Len(related_sessions) > 1
            THEN <<[sessions |-> [k \in 1..Len(related_sessions) |->
                                     related_sessions[k][2]],
                    session_count |-> Len(related_sessions),
                    shared_entities |->
                        UNION {get_session_entities(graph, rs[2]) :
                                  rs \in SeqToSet(related_sessions)}]>>
                 \o CampaignsFrom(graph, sessions, i + 1,
                                  processed \cup SeqToSet(related_sessions),
                                  min_shared_entities)
            ELSE CampaignsFrom(graph, sessions, i + 1, processed,
                               min_shared_entities)

\* ThreatGraph.find_campaigns
find_campaigns(graph, min_shared_entities) ==
    IF ~Truthy(graph) THEN <<>>
    ELSE CampaignsFrom(graph,
                       SelectSeq(graph.order,
                                 LAMBDA n : IsSessionNode(graph, n)),
                       1, {}, min_shared_entities)

notGraph == <<notLib, detVars, storeVars, lib_classifier>>

GraphSessionIds == {"demo-1", "demo-2"}

WinnerUpi == <<"upi", "winner@ybl">>

KbcUpi == <<"upi", "kbcprize2024@ybl">>

CallerPhone == <<"phone", "+919876543210">>

GraphNodeInputs ==
    {NodeId("session", "demo-1"), WinnerUpi, KbcUpi, CallerPhone}

GraphMetadata == {NoKeys, [risk |-> "high"], [risk |-> "low"]}

GraphWeights == {ExtractedWeight, CoOccurredWeight}

GraphEntityDicts ==
    {<<>>, <<WinnerUpi>>, <<WinnerUpi, KbcUpi>>, <<WinnerUpi, CallerPhone>>}

GraphMinShared == {1, 2}

LibCall(name, args, returned) ==
    [name |-> name, args |-> args, returned |-> returned]

WithinWeight(graph) ==
    \A e \in DOMAIN graph.edge : graph.edge[e].weight <= MaxEdgeWeight

\* threat_graph.add_node(node_type, value, **metadata)
GraphAddNode(n, metadata) ==
    LET done == add_node(threat_graph, n[1], n[2], metadata) IN
    /\ threat_graph' = done.graph
    /\ lib_call' = LibCall("add_node", <<n[1], n[2], metadata>>,
                           done.returned)
    /\ UNCHANGED <<graph_recorded, notGraph>>

\* threat_graph.add_edge(source_type, source_value, target_type,
\*                       target_value, relationship, weight)
GraphAddEdge(src, tgt, relationship, weight) ==
    LET done == add_edge(threat_graph, src[1], src[2], tgt[1], tgt[2],
                         relationship, weight) IN
    /\ WithinWeight(done.graph)
    /\ threat_graph' = done.graph
    /\ lib_call' = LibCall("add_edge",
                           <<src[1], src[2], tgt[1], tgt[2], relationship,
                             weight>>,
                           done.returned)
    /\ UNCHANGED <<graph_recorded, notGraph>>

\* threat_graph.add_session_entities(session_id, entities)
GraphAddSessionEntities(session_id, pairs) ==
    LET done == add_session_entities(threat_graph, session_id, pairs) IN
    /\ WithinWeight(done)
    /\ threat_graph' = done
    /\ graph_recorded' =
           (session_id :>
               (SeqToSet(pairs) \cup
                   (IF session_id \in DOMAIN graph_recorded
                    THEN graph_recorded[session_id] ELSE {})))
           @@ graph_recorded
    /\ lib_call' = LibCall("add_session_entities", <<session_id, pairs>>,
                           None)
    /\ UNCHANGED notGraph

\* threat_graph.find_campaigns(min_shared_entities)
GraphFindCampaigns(min_shared_entities) ==
    /\ lib_call' = LibCall("find_campaigns", <<min_shared_entities>>,
                           find_campaigns(threat_graph, min_shared_entities))
    /\ UNCHANGED <<graphVars, notGraph>>

NextGraph ==
    \/ \E n \in GraphNodeInputs, metadata \in GraphMetadata :
          GraphAddNode(n, metadata)
    \/ \E src \in GraphNodeInputs, tgt \in GraphNodeInputs,
          weight \in GraphWeights :
          GraphAddEdge(src, tgt,
                       IF weight = ExtractedWeight THEN "extracted"
                       ELSE "co_occurred",
                       weight)
    \/ \E session_id \in GraphSessionIds, pairs \in GraphEntityDicts :
          GraphAddSessionEntities(session_id, pairs)
    \/ \E min_shared_entities \in GraphMinShared :
          GraphFindCampaigns(min_shared_entities)

SpecGraph == InitGateway /\ [][NextGraph]_vars

\* No call adds anything to the graph: every method returns at
\* `if not self._graph`.
GraphStaysEmpty == threat_graph = DiGraph

\* C23: every add_edge call, made in any state of the graph, the initial
\* empty graph included, reports success and leaves both endpoint nodes in
\* the graph, creating those that were missing and no other node; an edge
\* that was not there is created with the given weight, and an edge that
\* was there gets the old weight plus the given one, with no edge added.
C23_AddEdgeCreatesOrAccumulates ==
    [][lib_call'.name = "add_edge" =>
        LET args == lib_call'.args
            src_id == NodeId(args[1], args[2])
            tgt_id == NodeId(args[3], args[4])
            e == <<src_id, tgt_id>>
        IN  /\ lib_call'.returned = TRUE
            /\ DOMAIN threat_graph'.node
                   = DOMAIN threat_graph.node \cup {src_id, tgt_id}
            /\ DOMAIN threat_graph'.edge = DOMAIN threat_graph.edge \cup {e}
            /\ threat_graph'.edge[e].weight =
                   IF e \in DOMAIN threat_graph.edge
                   THEN threat_graph.edge[e].weight + args[6]
                   ELSE args[6]
    ]_vars

\* An add_edge call on the graph without nodes has returned False and left
\* the graph as it was.
C23_AddEdgeRefused ==
    /\ lib_call # None
    /\ lib_call.name = "add_edge"
    /\ lib_call.returned = FALSE
    /\ threat_graph = DiGraph

\* No add_edge call reports success or changes the graph.
C23_AddEdgeNeverSucceeds ==
    [][lib_call'.name = "add_edge" =>
        lib_call'.returned = FALSE /\ threat_graph' = threat_graph]_vars

\* C24: every add_node call leaves the (type, value) node in the graph,
\* once; if the node was there already, the graph is as it was, the node
\* carrying the metadata of the first add and not that of the repeated one.
C24_AddNodeFirstWriteWins ==
    [][lib_call'.name = "add_node" =>
        LET args == lib_call'.args
            node_id == NodeId(args[1], args[2])
            Once(order) == Len(SelectSeq(order, LAMBDA n : n = node_id)) = 1
        IN  /\ lib_call'.returned = node_id
            /\ node_id \in DOMAIN threat_graph'.node
            /\ Once(threat_graph'.order)
            /\ IF node_id \in DOMAIN threat_graph.node
               THEN threat_graph' = threat_graph
               ELSE threat_graph'.node[node_id]
                        = [type |-> args[1], value |-> args[2]] @@ args[3]
    ]_vars

\* An add_node call with metadata has returned "" and the graph holds no
\* node.
C24_AddNodeRefused ==
    /\ lib_call # None
    /\ lib_call.name = "add_node"
    /\ lib_call.args[3] # NoKeys
    /\ lib_call.returned = NoNodeId
    /\ threat_graph.order = <<>>

\* No add_node call puts a node in the graph.
C24_AddNodeNeverAdds ==
    [][lib_call'.name = "add_node" =>
        lib_call'.returned = NoNodeId /\ threat_graph' = threat_graph]_vars

\* the entity values two recorded sessions share, over all entity types
SharedRecorded(s, t) == Cardinality(graph_recorded[s] \cap graph_recorded[t])

\* C25: when exactly two sessions have been recorded with
\* add_session_entities, find_campaigns(m) returns one campaign holding
\* both if they share at least m entity values, and no campaign otherwise.
C25_TwoSessionsGroupedIffShared ==
    [][(lib_call'.name = "find_campaigns"
        /\ DOMAIN graph_recorded = GraphSessionIds) =>
        LET m == lib_call'.args[1]
            campaigns == lib_call'.returned
        IN  IF SharedRecorded("demo-1", "demo-2") >= m
            THEN /\ Len(campaigns) = 1
                 /\ SeqToSet(campaigns[1].sessions) = GraphSessionIds
                 /\ campaigns[1].session_count = 2
            ELSE campaigns = <<>>
    ]_vars

\* Two sessions were recorded with the same two UPI handles and
\* find_campaigns(2) has returned no campaign.
C25_SharedHandlesNotGrouped ==
    /\ DOMAIN graph_recorded = GraphSessionIds
    /\ graph_recorded["demo-1"] = {WinnerUpi, KbcUpi}
    /\ graph_recorded["demo-2"] = {WinnerUpi, KbcUpi}
    /\ lib_call.name = "find_campaigns"
    /\ lib_call.args = <<2>>
    /\ lib_call.returned = <<>>

\* find_campaigns never returns a campaign.
C25_NoCampaignEverFound ==
    [][lib_call'.name = "find_campaigns" => lib_call'.returned = <<>>]_vars

(***************************************************************************)
(* The stores (db/redis_store.py, db/postgres_store.py).  The backend is   *)
(* outside the program: what it does with a call is an input, either       *)
(* Replied(value) or BackendError, the client raising an Exception.  A     *)
(* method's name carries its store, "redis." or "postgres.".  The module   *)
(* db.postgres_store cannot be imported without SQLAlchemy (the annotation *)
(* of _get_session needs AsyncSession), so HAS_SQLALCHEMY is true wherever *)
(* a store exists.                                                         *)
(***************************************************************************)

Replied(value) == [value |-> value]

BackendError == [error |-> "ConnectionError"]

RedisClient == [url |-> "redis://localhost:6379/0"]

AsyncEngine == [url |-> "postgresql+asyncpg://localhost:5432/scambait"]

SessionFactory == [bind |-> AsyncEngine, expire_on_commit |-> FALSE]

\* what a call hands its caller: a value, or an exception
Returns(value) == [returned |-> value, raised |-> FALSE]

Raises == [returned |-> None, raised |-> TRUE]

\* A backend call with no except clause around it.
Uncontained(reply, success, failure) ==
    IF reply = BackendError THEN Raises ELSE Returns(success)

\* try: <backend call>; return success / except Exception: return failure
Contained(reply, success, failure) ==
    IF reply = BackendError THEN Returns(failure) ELSE Returns(success)

RedisEntityTypes == {"upi", "phone", "bank", "crypto", "url", "email"}

\* the methods of RedisStore that make one guarded backend exchange, with
\* the value each returns from `if not self._client` and from `except`
RedisFailure ==
    [redis_save_session |-> FALSE,
     redis_get_session |-> None,
     redis_delete_session |-> FALSE,
     redis_extend_session_ttl |-> FALSE,
     redis_add_entity |-> 0,
     redis_get_entities |-> <<>>,
     redis_publish_event |-> FALSE,
     redis_increment_metric |-> 0,
     redis_get_metrics |-> NoKeys]

RedisMethods == DOMAIN RedisFailure

\* what the method returns when the backend answered: True for a write,
\* what was read (json.loads(data) if data else None, the set's members,
\* the counter, the metrics) for a read
RedisSuccess(method, reply) ==
    IF method \in {"redis_save_session", "redis_delete_session",
                   "redis_extend_session_ttl", "redis_publish_event"}
    THEN TRUE
    ELSE reply.value

\* RedisStore.<method>
redis_method(self, method, reply) ==
    IF self.client = None
    THEN Returns(RedisFailure[method])
    ELSE Contained(reply, RedisSuccess(method, reply), RedisFailure[method])

\* RedisStore.get_all_entities: replies[t] is the backend's answer to
\* get_entities for type t
redis_get_all_entities(self, replies) ==
    LET entities == [t \in RedisEntityTypes |->
                        redis_method(self, "redis_get_entities",
                                     replies[t]).returned]
    IN  Returns([t \in {u \in RedisEntityTypes : entities[u] # <<>>} |->
                    entities[t]])

\* RedisStore.publish_session_update, publish_entity_found: the result of
\* publish_event is dropped
redis_publish_wrapped(self, reply) ==
    LET published == redis_method(self, "redis_publish_event", reply)
    IN  IF published.raised THEN Raises ELSE Returns(None)

EmptyGraphData == [nodes |-> <<>>, edges |-> <<>>]

PostgresFailure ==
    [postgres_save_session |-> FALSE,
     postgres_end_session |-> FALSE,
     postgres_save_message |-> FALSE,
     postgres_get_messages |-> <<>>,
     postgres_save_entity |-> FALSE,
     postgres_get_entities_by_type |-> <<>>,
     postgres_add_threat_edge |-> FALSE,
     postgres_get_threat_graph_data |-> EmptyGraphData,
     postgres_save_report |-> FALSE,
     postgres_get_stats |-> NoKeys]

PostgresMethods == DOMAIN PostgresFailure

PostgresSuccess(method, reply) ==
    IF method \in {"postgres_save_session", "postgres_end_session",
                   "postgres_save_message", "postgres_save_entity",
                   "postgres_add_threat_edge", "postgres_save_report"}
    THEN TRUE
    ELSE reply.value

\* PostgresStore.<method>: _get_session() raises RuntimeError inside the
\* try when there is no session factory
postgres_method(self, method, reply) ==
    IF self.engine = None
    THEN Returns(PostgresFailure[method])
    ELSE Contained(IF self.session_factory = None THEN BackendError
                   ELSE reply,
                   PostgresSuccess(method, reply), PostgresFailure[method])

notStore == <<notLib, detVars, graphVars, lib_classifier>>

StoreCall(name, reply, outcome) ==
    [name |-> name, args |-> <<reply>>, returned |-> outcome.returned,
     raised |-> outcome.raised]

SessionBlob == [persona_id |-> "elderly_widow", turn_count |-> 2]

\* what the backend may answer to a method
RedisReplies(method) ==
    {BackendError} \cup
    (CASE method = "redis_get_session" ->
              {Replied(None), Replied(SessionBlob)}
       [] method \in {"redis_add_entity", "redis_increment_metric"} ->
              {Replied(1), Replied(2)}
       [] method = "redis_get_entities" ->
              {Replied(<<>>), Replied(<<"winner@ybl">>)}
       [] method = "redis_get_metrics" ->
              {Replied(NoKeys), Replied([sessions |-> 3])}
       [] OTHER -> {Replied(TRUE)})

\* the answers to the six get_entities calls of one get_all_entities
RedisEntityReplies ==
    {[t \in RedisEntityTypes |-> BackendError],
     [t \in RedisEntityTypes |-> Replied(<<>>)],
     [t \in RedisEntityTypes |->
         IF t = "upi" THEN Replied(<<"winner@ybl">>) ELSE Replied(<<>>)],
     [t \in RedisEntityTypes |->
         IF t = "upi" THEN Replied(<<"winner@ybl">>) ELSE BackendError]}

PostgresReplies(method) ==
    {BackendError} \cup
    (CASE method = "postgres_get_messages" ->
              {Replied(<<>>),
               Replied(<<[role |-> "scammer", content |-> "hello",
                          timestamp |-> 1]>>)}
       [] method = "postgres_get_entities_by_type" ->
              {Replied(<<>>),
               Replied(<<[normalized |-> "winner@ybl",
                          value |-> "Winner@YBL", occurrences |-> 2]>>)}
       [] method = "postgres_get_threat_graph_data" ->
              {Replied(EmptyGraphData),
               Replied([nodes |-> <<"session:demo-1", "upi:winner@ybl">>,
                        edges |-> <<[source |-> "session:demo-1",
                                     target |-> "upi:winner@ybl",
                                     relationship |-> "extracted",
                                     weight |-> 1000]>>])}
       [] method = "postgres_get_stats" ->
              {Replied(NoKeys),
               Replied([total_sessions |-> 1, total_entities |-> 2])}
       [] OTHER -> {Replied(TRUE)})

\* await redis_store.connect(), to the await of ping(): the library is
\* missing, or from_url() raises, or the client is made and the call has
\* not returned yet
RedisConnectBegin(outcome) ==
    /\ ~redis_store.connecting
    /\ IF outcome = "made"
       THEN /\ redis_store' = [client |-> RedisClient, connecting |-> TRUE]
            /\ lib_call' = None
       ELSE /\ redis_store' =
                  IF outcome = "not installed" THEN redis_store
                  ELSE [redis_store EXCEPT !.client = None]
            /\ lib_call' = StoreCall("redis_connect", BackendError,
                                     Returns(FALSE))
    /\ UNCHANGED <<postgres_store, notStore>>

\* ping() answers or raises
RedisConnectEnd(reply) ==
    /\ redis_store.connecting
    /\ redis_store' =
           [client |-> IF reply = BackendError THEN None
                       ELSE redis_store.client,
            connecting |-> FALSE]
    /\ lib_call' = StoreCall("redis_connect", reply,
                             Returns(reply # BackendError))
    /\ UNCHANGED <<postgres_store, notStore>>

\* await redis_store.disconnect(): close() is not guarded
RedisDisconnect(reply) ==
    /\ IF redis_store.client = None
       THEN /\ lib_call' = StoreCall("redis_disconnect", reply, Returns(None))
            /\ UNCHANGED redis_store
       ELSE /\ lib_call' = StoreCall("redis_disconnect", reply,
                                     Uncontained(reply, None, None))
            /\ redis_store' =
                   IF reply = BackendError THEN redis_store
                   ELSE [redis_store EXCEPT !.client = None]
    /\ UNCHANGED <<postgres_store, notStore>>

\* await redis_store.<method>(...)
RedisCall(method, reply) ==
    /\ lib_call' = StoreCall(method, reply,
                             redis_method(redis_store, method, reply))
    /\ UNCHANGED <<storeVars, notStore>>

\* await redis_store.get_all_entities(session_id)
RedisGetAllEntities(replies) ==
    /\ lib_call' = StoreCall("redis_get_all_entities", replies,
                             redis_get_all_entities(redis_store, replies))
    /\ UNCHANGED <<storeVars, notStore>>

\* await redis_store.publish_session_update(...), publish_entity_found(...)
RedisPublishWrapped(method, reply) ==
    /\ lib_call' = StoreCall(method, reply,
                             redis_publish_wrapped(redis_store, reply))
    /\ UNCHANGED <<storeVars, notStore>>

\* await postgres_store.connect(), to the await of the test query:
\* create_async_engine() raises, or engine and session factory are made
PostgresConnectBegin(outcome) ==
    /\ ~postgres_store.connecting
    /\ IF outcome = "made"
       THEN /\ postgres_store' = [engine |-> AsyncEngine,
                                  session_factory |-> SessionFactory,
                                  connecting |-> TRUE]
            /\ lib_call' = None
       ELSE /\ postgres_store' = [postgres_store EXCEPT !.engine = None]
            /\ lib_call' = StoreCall("postgres_connect", BackendError,
                                     Returns(FALSE))
    /\ UNCHANGED <<redis_store, notStore>>

\* SELECT 1 answers or raises
PostgresConnectEnd(reply) ==
    /\ postgres_store.connecting
    /\ postgres_store' =
           [postgres_store EXCEPT
               !.engine = IF reply = BackendError THEN None ELSE @,
               !.connecting = FALSE]
    /\ lib_call' = StoreCall("postgres_connect", reply,
                             Returns(reply # BackendError))
    /\ UNCHANGED <<redis_store, notStore>>

\* await postgres_store.disconnect(): dispose() is not guarded
PostgresDisconnect(reply) ==
    /\ IF postgres_store.engine = None
       THEN /\ lib_call' = StoreCall("postgres_disconnect", reply,
                                     Returns(None))
            /\ UNCHANGED postgres_store
       ELSE /\ lib_call' = StoreCall("postgres_disconnect", reply,
                                     Uncontained(reply, None, None))
            /\ postgres_store' =
                   IF reply = BackendError THEN postgres_store
                   ELSE [postgres_store EXCEPT !.engine = None]
    /\ UNCHANGED <<redis_store, notStore>>

\* await postgres_store.<method>(...)
PostgresCall(method, reply) ==
    /\ lib_call' = StoreCall(method, reply,
                             postgres_method(postgres_store, method, reply))
    /\ UNCHANGED <<storeVars, notStore>>

ConnectOutcomes == {"made", "constructor raises"}

NextStores ==
    \/ \E outcome \in ConnectOutcomes \cup {"not installed"} :
          RedisConnectBegin(outcome)
    \/ \E reply \in {Replied(TRUE), BackendError} : RedisConnectEnd(reply)
    \/ \E reply \in {Replied(TRUE), BackendError} : RedisDisconnect(reply)
    \/ \E method \in RedisMethods : \E reply \in RedisReplies(method) :
          RedisCall(method, reply)
    \/ \E replies \in RedisEntityReplies : RedisGetAllEntities(replies)
    \/ \E method \in {"redis_publish_session_update",
                      "redis_publish_entity_found"},
          reply \in {Replied(TRUE), BackendError} :
          RedisPublishWrapped(method, reply)
    \/ \E outcome \in ConnectOutcomes : PostgresConnectBegin(outcome)
    \/ \E reply \in {Replied(TRUE), BackendError} : PostgresConnectEnd(reply)
    \/ \E reply \in {Replied(TRUE), BackendError} : PostgresDisconnect(reply)
    \/ \E method \in PostgresMethods : \E reply \in PostgresReplies(method) :
          PostgresCall(method, reply)

SpecStores == InitGateway /\ [][NextStores]_vars

\* the last library call, once it has returned, is one of methods
Called(call, methods) == call # None /\ call.name \in methods

\* the store a call went to had no client, no engine, when the call was made
StoreWasDown ==
    IF lib_call'.name \in RedisMethods THEN redis_store.client = None
    ELSE postgres_store.engine = None

\* the failure or empty value of a method: false for a write, null for
\* get_session, 0 for a count, an empty list or map for a query
EmptyValueOf(method) ==
    IF method = "redis_get_session" THEN None
    ELSE IF method \in {"redis_add_entity", "redis_increment_metric"} THEN 0
    ELSE IF method \in {"redis_get_entities", "postgres_get_messages",
                        "postgres_get_entities_by_type"} THEN <<>>
    ELSE IF method \in {"redis_get_metrics", "postgres_get_stats"}
    THEN NoKeys
    ELSE IF method = "postgres_get_threat_graph_data"
    THEN [nodes |-> <<>>, edges |-> <<>>]
    ELSE FALSE

MaxClassifyCalls == 3

notClassifier == <<notLib, detVars, graphVars, storeVars>>

\* ScamClassifier(use_llm), with the history of its calls
ScamClassifier(use_llm) ==
    [use_llm |-> use_llm, text |-> None, awaiting |-> FALSE, calls |-> 0,
     model_calls |-> 0]

\* A second stage that does not ask whether the model is to be used.
EscalatesAlways(self, regex_result) == regex_result.confidence < 80

\* "if self.use_llm and regex_result.confidence < 0.8"
Escalates(self, regex_result) ==
    self.use_llm /\ regex_result.confidence < 80

ClassifierTexts ==
    {Hello, Prize, LotteryScript.messages[1], LotteryScript.messages[2]}

\* What the model call of _llm_classify may end with: JSON with a higher
\* or an equal confidence, a text without JSON, an exception of the
\* client, or JSON that makes _parse_llm_response raise a TypeError
\* ("confidence": null), which _llm_classify turns into LLMError.
ClassifierOutcomes ==
    {LLMJson("upi_fraud", 85, <<"asks for a payment">>),
     LLMJson("lottery", 45, <<"upi_fraud_language", "promises a prize">>),
     LLMNoJson, RateLimitExceeded, LLMError, LLMFailed("TypeError")}

\* classifier = ScamClassifier(use_llm=...)
CreateClassifier(use_llm) ==
    /\ lib_classifier = None
    /\ lib_classifier' = ScamClassifier(use_llm)
    /\ UNCHANGED <<lib_call, notClassifier>>

\* await classifier.classify(text), to its return or to the await of
\* _llm_classify
ClassifyBegin(text) ==
    /\ lib_classifier # None
    /\ ~lib_classifier.awaiting
    /\ lib_classifier.calls < MaxClassifyCalls
    /\ LET regex_result == regex_classify(text)
           called == [lib_classifier EXCEPT !.text = text, !.calls = @ + 1]
       IN  IF ~ClearRegexMatch(text) /\ Escalates(lib_classifier, regex_result)
           THEN /\ lib_classifier' = [called EXCEPT !.awaiting = TRUE,
                                                    !.model_calls = @ + 1]
                /\ lib_call' = None
           ELSE /\ lib_classifier' = called
                /\ lib_call' = LibCall("classify", <<text>>, regex_result)
    /\ UNCHANGED notClassifier

\* the model call is over: classify() merges and returns
ClassifyEnd(outcome) ==
    /\ lib_classifier # None
    /\ lib_classifier.awaiting
    /\ lib_classifier' = [lib_classifier EXCEPT !.awaiting = FALSE]
    /\ lib_call' = LibCall("classify", <<lib_classifier.text, outcome>>,
                           classify_with_llm(lib_classifier.text, outcome))
    /\ UNCHANGED notClassifier

NextClassifier ==
    \/ \E use_llm \in BOOLEAN : CreateClassifier(use_llm)
    \/ \E text \in ClassifierTexts : ClassifyBegin(text)
    \/ \E outcome \in ClassifierOutcomes : ClassifyEnd(outcome)

SpecClassifier == InitGateway /\ [][NextClassifier]_vars

NoKeywordMatch(text) ==
    \A i \in 1..Len(ScamTypes) : IndicatorWords(text)[ScamTypes[i]] = 0

\* C27: a classify() call makes a model call exactly when the classifier
\* uses the model and the regex confidence is below 0.8, and model calls
\* are made by nothing else; with a regex confidence of 0.8 or more the
\* regex result is returned at once; with the model disabled a text
\* without a keyword of any scam category is returned as unknown with
\* confidence 0.0, without a model call.
C27_ModelCallIffEnabledAndUnsure ==
    [][(lib_classifier # None /\ lib_classifier' # None) =>
        LET begun == lib_classifier'.calls = lib_classifier.calls + 1
            asked == lib_classifier'.model_calls
                         = lib_classifier.model_calls + 1
            text == lib_classifier'.text
            regex_result == regex_classify(text)
        IN  /\ ~begun => lib_classifier'.model_calls
                             = lib_classifier.model_calls
            /\ begun =>
                /\ asked \/ lib_classifier'.model_calls
                                = lib_classifier.model_calls
                /\ asked <=> (lib_classifier.use_llm
                              /\ regex_result.confidence < 80)
                /\ asked <=> lib_classifier'.awaiting
                /\ regex_result.confidence >= 80 =>
                       lib_call' = LibCall("classify", <<text>>, regex_result)
                /\ (~lib_classifier.use_llm /\ NoKeywordMatch(text)) =>
                       /\ lib_call' # None
                       /\ lib_call'.returned.scam_type = "unknown"
                       /\ lib_call'.returned.confidence = 0
    ]_vars

\* A classifier with the model disabled has classified two texts, the last
\* a greeting without keywords, returned as unknown with confidence 0.0,
\* and no model call was made.
C27_Witness ==
    /\ lib_classifier # None
    /\ ~lib_classifier.use_llm
    /\ lib_classifier.calls = 2
    /\ lib_classifier.model_calls = 0
    /\ lib_classifier.text = Hello
    /\ lib_call = LibCall("classify", <<Hello>>,
                          ScamClassification("unknown", 0, <<>>))

\* C28: when the model call of a classify() is over, classify() returns
\* without an error: the regex result if the call raised; the model's
\* category and confidence with the union of both indicator lists if the
\* model's confidence is strictly greater than the regex confidence, a
\* text without JSON counting as unknown with confidence 0.3; and the
\* regex result otherwise.  The confidence returned is never below the
\* regex confidence.
C28_ModelResultOnlyIfMoreConfident ==
    [][(lib_classifier # None /\ lib_classifier.awaiting
        /\ ~lib_classifier'.awaiting) =>
        LET text == lib_call'.args[1]
            outcome == lib_call'.args[2]
            returned == lib_call'.returned
            regex_result == regex_classify(text)
            model_type == IF outcome.kind = "json" THEN outcome.scam_type
                          ELSE "unknown"
            model_confidence == IF outcome.kind = "json"
                                THEN outcome.confidence ELSE 30
            model_indicators == IF outcome.kind = "json"
                                THEN outcome.indicators
                                ELSE <<"llm_parse_error">>
        IN  /\ text = lib_classifier.text
            /\ returned.confidence >= regex_result.confidence
            /\ IF outcome.kind # "raise"
                  /\ model_confidence > regex_result.confidence
               THEN /\ returned.scam_type = model_type
                    /\ returned.confidence = model_confidence
                    /\ SeqToSet(returned.indicators)
                           = SeqToSet(model_indicators)
                             \cup SeqToSet(regex_result.indicators)
               ELSE returned = regex_result
    ]_vars

\* The model answered a line of regex confidence 0.45 with JSON of
\* confidence 0.45 and another category: the regex result was returned.
C28_Witness ==
    /\ lib_classifier # None
    /\ ~lib_classifier.awaiting
    /\ lib_classifier.text = LotteryScript.messages[2]
    /\ lib_call # None
    /\ Len(lib_call.args) = 2
    /\ lib_call.args[2].kind = "json"
    /\ lib_call.args[2].confidence = 45
    /\ lib_call.returned = regex_classify(LotteryScript.messages[2])
    /\ lib_call.returned.confidence = 45
    /\ lib_call.returned.scam_type # lib_call.args[2].scam_type

(***************************************************************************)
(* calculate_threat_level (models/schemas.py) applied to a classification  *)
(* and to entity lists of given lengths.                                   *)
(***************************************************************************)

MaxEntityCount == 3

notSchemas == <<notLib, detVars, graphVars, storeVars, lib_classifier>>

\* confidences in percent
ThreatConfidences == {0, 25, 50, 90, 100}

\* an ExtractedEntities with lists of the given lengths
EntitiesOfCounts(upi, bank, phone, crypto) ==
    [ExtractedEntities EXCEPT
        !.upi_ids = [i \in 1..upi |-> i],
        !.bank_accounts = [i \in 1..bank |-> i],
        !.phone_numbers = [i \in 1..phone |-> i],
        !.crypto_addresses = [i \in 1..crypto |-> i]]

\* calculate_threat_level(classification, entities)
CalculateThreatLevel(confidence, upi, bank, phone, crypto) ==
    /\ lib_call' =
           LibCall("calculate_threat_level",
                   <<confidence, upi, bank, phone, crypto>>,
                   calculate_threat_level(
                       ScamClassification("unknown", confidence, <<>>),
                       EntitiesOfCounts(upi, bank, phone, crypto)))
    /\ UNCHANGED notSchemas

NextThreatLevel ==
    \E confidence \in ThreatConfidences :
        \E upi \in 0..MaxEntityCount, bank \in 0..MaxEntityCount,
           phone \in 0..MaxEntityCount, crypto \in 0..MaxEntityCount :
            CalculateThreatLevel(confidence, upi, bank, phone, crypto)

SpecThreatLevel == InitGateway /\ [][NextThreatLevel]_vars

\* 0.4*c + min(0.15*upi, 0.3) + min(0.2*bank, 0.3) + min(0.1*phone, 0.2)
\* + min(0.25*crypto, 0.3), in thousandths, c in percent
StatedScore(c, upi, bank, phone, crypto) ==
    4 * c + Min(150 * upi, 300) + Min(200 * bank, 300)
    + Min(100 * phone, 200) + Min(250 * crypto, 300)

StatedLevel(score) ==
    IF score >= 800 THEN "critical"
    ELSE IF score >= 600 THEN "high"
    ELSE IF score >= 400 THEN "medium"
    ELSE "low"

\* C29: calculate_threat_level returns the level of the score
\* 0.4*c + min(0.15*upi, 0.3) + min(0.2*bank, 0.3) + min(0.1*phone, 0.2)
\* + min(0.25*crypto, 0.3): critical from 0.8, high from 0.6, medium from
\* 0.4, low below.
C29_LevelOfStatedScore ==
    (lib_call # None /\ lib_call.name = "calculate_threat_level") =>
        lib_call.returned =
            StatedLevel(StatedScore(lib_call.args[1], lib_call.args[2],
                                    lib_call.args[3], lib_call.args[4],
                                    lib_call.args[5]))

\* Confidence 0 with one UPI id, two bank accounts, one phone number and
\* one crypto address, a score of 0.8, has been given the level high.
C29_ScoreOfCriticalRatedHigh ==
    /\ lib_call # None
    /\ lib_call = LibCall("calculate_threat_level", <<0, 1, 2, 1, 1>>, "high")
    /\ StatedScore(0, 1, 2, 1, 1) = 800

\* Apart from the sums that fall short of 0.8 as doubles, the level is the
\* one of the stated score; the two examples of the claim are among them.
C29_LevelOfStatedScoreButRounding ==
    (lib_call # None /\ lib_call.name = "calculate_threat_level") =>
        LET a == lib_call.args
            score == StatedScore(a[1], a[2], a[3], a[4], a[5])
        IN  /\ score # 800 => lib_call.returned = StatedLevel(score)
            /\ score = 800 => lib_call.returned \in {"critical", "high"}
            /\ a = <<90, 2, 1, 0, 0>> => lib_call.returned = "critical"
            /\ a = <<0, 0, 0, 0, 0>> => lib_call.returned = "low"

(***************************************************************************)
(* ExtractedEntities.merge_with_dedup (models/schemas.py) applied to the   *)
(* entities of a message and of a session, and to one of them with itself. *)
(***************************************************************************)

Repeat == Text("repeat", 0, 0, 0, 0)

Links == Text("links", 0, 0, 0, 0)

Coins == Text("coins", 0, 0, 0, 0)

Again == Text("again", 0, 0, 0, 0)

MergeTexts == {Prize, Pay, Repeat, Links, Coins, Again}

\* session.extracted_entities of the session the last message went to
HeldEntities ==
    IF lib_call # None /\ lib_call.name = "merge_with_dedup"
    THEN lib_call.returned
    ELSE ExtractedEntities

\* ConversationAgent.process_message, step 1: the entities of the message
\* are merged into the session's
MergeMessageEntities(scammer_message) ==
    /\ lib_call' =
           LET entities == extract_all(scammer_message)
           IN  LibCall("merge_with_dedup", <<HeldEntities, entities>>,
                       merge_with_dedup(HeldEntities, entities))
    /\ UNCHANGED notSchemas

\* X.merge_with_dedup(X) for the entities X just extracted ("extracted") or
\* those the session now holds ("held")
MergeWithItself(which) ==
    /\ lib_call # None
    /\ lib_call.name = "merge_with_dedup"
    /\ lib_call' =
           LET X == IF which = "extracted" THEN lib_call.args[2]
                    ELSE lib_call.returned
           IN  LibCall("merge_with_itself", <<X, X>>, merge_with_dedup(X, X))
    /\ UNCHANGED notSchemas

NextMerge ==
    \/ \E scammer_message \in MergeTexts : MergeMessageEntities(scammer_message)
    \/ \E which \in {"extracted", "held"} : MergeWithItself(which)

SpecMerge == InitGateway /\ [][NextMerge]_vars

\* how many entries of the list are the entry
Occurrences(Same(_, _), entry, list) ==
    Cardinality({i \in 1..Len(list) : Same(list[i], entry)})

\* the two lists have the same entries, each as many times
SameEntries(Same(_, _), a, b) ==
    /\ Len(a) = Len(b)
    /\ \A i \in 1..Len(a) :
           Occurrences(Same, a[i], a) = Occurrences(Same, a[i], b)

SameString(a, b) == a = b

SameAccount(a, b) == a.account_number = b.account_number /\ a = b

SameAddress(a, b) == a.address = b.address /\ a = b

SameContents(a, b) ==
    /\ SameEntries(SameString, a.upi_ids, b.upi_ids)
    /\ SameEntries(SameString, a.phone_numbers, b.phone_numbers)
    /\ SameEntries(SameAccount, a.bank_accounts, b.bank_accounts)
    /\ SameEntries(SameAddress, a.crypto_addresses, b.crypto_addresses)
    /\ SameEntries(SameString, a.urls, b.urls)
    /\ SameEntries(SameString, a.email_addresses, b.email_addresses)

\* C30: for the entities X extracted from a message or held by a session,
\* merge_with_dedup(X, X) has in every category the entries of X, none
\* added and none twice.
C30_MergeWithItselfKeepsContents ==
    (lib_call # None /\ lib_call.name = "merge_with_itself") =>
        SameContents(lib_call.returned, lib_call.args[1])

\* A session's entities with an UPI id, a phone number and a bank account
\* seen in several spellings, two crypto addresses and four URLs or more
\* have been merged with themselves.
C30_Witness ==
    /\ lib_call # None
    /\ lib_call.name = "merge_with_itself"
    /\ Len(lib_call.args[1].upi_ids) = 1
    /\ Len(lib_call.args[1].phone_numbers) = 1
    /\ Len(lib_call.args[1].bank_accounts) = 1
    /\ Len(lib_call.args[1].crypto_addresses) >= 2
    /\ Len(lib_call.args[1].urls) >= 4
    /\ Len(lib_call.returned.urls) = Len(lib_call.args[1].urls)

(***************************************************************************)
(* ResponseHumanizer (agent/humanizer.py): the typing delay of a reply.    *)
(***************************************************************************)

MaxMessageLength == 200

\* age and typing_speed (in hundredths) of the personas of agent/personas.py
PersonaProfile(persona_id) ==
    CASE persona_id = "elderly_widow" -> [age |-> 68, typing_speed |-> 30]
      [] persona_id = "young_professional" -> [age |-> 28, typing_speed |-> 80]
      [] persona_id = "small_business_owner" -> [age |-> 45, typing_speed |-> 60]

\* random.randint(1000, 3000) and random.randint(1000, 2000): the ends and
\* the middle of each range
ThinkingDraws == {1000, 2000, 3000}

ElderlyDraws == {1000, 1500, 2000}

\* the second draw is made for personas older than 60 only
ExtraDraws(persona) == IF persona.age > 60 THEN ElderlyDraws ELSE {0}

CharCounts == {n \in 0..MaxMessageLength : n % 20 = 0 \/ n = MaxMessageLength}

\* int(delay + thinking_time)
TotalDelay(persona, char_count, thinking, extra) ==
    (char_count * 50 * (150 - persona.typing_speed)) \div 100
    + thinking + (IF persona.age > 60 THEN extra ELSE 0)

\* calculate_typing_delay_ms with the total returned as it is
calculate_typing_delay_uncapped(persona, char_count, thinking, extra) ==
    TotalDelay(persona, char_count, thinking, extra)

\* ResponseHumanizer.calculate_typing_delay_ms
calculate_typing_delay_ms(persona, char_count, thinking, extra) ==
    Max(1500, Min(TotalDelay(persona, char_count, thinking, extra), 8000))

\* ResponseHumanizer.humanize: (humanized_message, typing_delay_ms); the
\* delay is that of the message before the hesitation marker and the typo
humanize_with_delay(persona, message, thinking, extra) ==
    <<humanize(message).humanized,
      calculate_typing_delay_ms(persona, message.char_count, thinking, extra)>>

\* humanizer.calculate_typing_delay_ms(message)
CalculateTypingDelay(persona_id, char_count, thinking, extra) ==
    /\ lib_call' =
           LibCall("calculate_typing_delay_ms",
                   <<persona_id, char_count, thinking, extra>>,
                   calculate_typing_delay_ms(PersonaProfile(persona_id),
                                             char_count, thinking, extra))
    /\ UNCHANGED notSchemas

\* humanizer.humanize(message)
Humanize(persona_id, char_count, thinking, extra) ==
    /\ lib_call' =
           LibCall("humanize", <<persona_id, char_count, thinking, extra>>,
                   humanize_with_delay(PersonaProfile(persona_id),
                                       [text |-> "reply", char_count |-> char_count],
                                       thinking, extra)[2])
    /\ UNCHANGED notSchemas

NextHumanizer ==
    \E persona_id \in Personas, char_count \in CharCounts,
       thinking \in ThinkingDraws :
        \E extra \in ExtraDraws(PersonaProfile(persona_id)) :
            \/ CalculateTypingDelay(persona_id, char_count, thinking, extra)
            \/ Humanize(persona_id, char_count, thinking, extra)

SpecHumanizer == InitGateway /\ [][NextHumanizer]_vars

\* C31: whatever the message length, the persona and the thinking-time
\* draws, calculate_typing_delay_ms returns a value from 1500 to 8000, and
\* so does the delay humanize returns.
C31_DelayWithinBounds ==
    (lib_call # None
     /\ lib_call.name \in {"calculate_typing_delay_ms", "humanize"}) =>
        /\ lib_call.returned >= 1500
        /\ lib_call.returned <= 8000

\* humanize has cut the delay of the longest message of the slow typer,
\* with the longest thinking times, to 8000.
C31_Witness ==
    /\ lib_call # None
    /\ lib_call.name = "humanize"
    /\ lib_call.args = <<"elderly_widow", MaxMessageLength, 3000, 2000>>
    /\ lib_call.returned = 8000
    /\ TotalDelay(PersonaProfile("elderly_widow"), MaxMessageLength,
                  3000, 2000) > 8000

\* An empty message with the shortest thinking time is raised to 1500.
C31_ShortDelayRaised ==
    (lib_call # None /\ lib_call.name = "calculate_typing_delay_ms"
     /\ lib_call.args = <<"young_professional", 0, 1000, 0>>) =>
        lib_call.returned = 1500

(***************************************************************************)
(* Phone numbers through extraction (_extract_phone_numbers) and through   *)
(* the merge of a session's entities over several turns.                   *)
(***************************************************************************)

PhoneTexts == {Text(name, 0, 0, 0, 0) : name \in PhoneTextNames}

FirstNumber == <<"9", "8", "7", "6", "5", "4", "3", "2", "1", "0">>

SecondNumber == <<"9", "1", "9", "8", "7", "6", "5", "4", "3", "2">>

ThirdNumber == <<"6", "6", "7", "7", "8", "8", "9", "9", "0", "0">>

\* the mobile number each text gives, in one form or in both
NumberIn(name) ==
    IF name \in {"both-second", "bare-second"} THEN SecondNumber
    ELSE IF name \in {"prefixed-third", "bare-third"} THEN ThirdNumber
    ELSE FirstNumber

BothForms == {"both-space", "both-dot", "both-hyphen", "both-joined", "both-second"}

\* f"+91 {digits[:5]} {digits[5:]}"
FormattedNumber(digits) ==
    <<"+", "9", "1", " ">> \o SubSeq(digits, 1, 5) \o <<" ">>
    \o SubSeq(digits, 6, 10)

\* session.extracted_entities before the turn
EntitiesOfTurns ==
    IF lib_call # None /\ lib_call.name = "process_message"
    THEN lib_call.returned.held
    ELSE ExtractedEntities

\* ConversationAgent.process_message, step 1, for one scammer message of a
\* session: the entities extracted and the session's entities after the merge
ProcessPhones(scammer_message) ==
    /\ lib_call' =
           LET entities == extract_all(scammer_message)
           IN  LibCall("process_message",
                       <<EntitiesOfTurns, scammer_message.name>>,
                       [entities |-> entities,
                        held |-> merge_with_dedup(EntitiesOfTurns, entities)])
    /\ UNCHANGED notSchemas

\* a new session
NewPhoneSession ==
    /\ lib_call # None
    /\ lib_call' = None
    /\ UNCHANGED notSchemas

NextPhones ==
    \/ \E scammer_message \in PhoneTexts : ProcessPhones(scammer_message)
    \/ NewPhoneSession

SpecPhones == InitGateway /\ [][NextPhones]_vars

\* the entries of the list whose last ten digits are the number
EntriesOf(number, phone_numbers) ==
    {i \in 1..Len(phone_numbers) : normalize_phone(phone_numbers[i]) = number}

\* C32: a text giving a mobile number with the +91 prefix (separated by a
\* space, a dot, a hyphen or nothing), bare, or both yields exactly one
\* entry, written +91 XXXXX XXXXX, and the session's entities merged over
\* the turns keep exactly one entry per number, keyed by its last 10 digits.
C32_OneEntryPerNumber ==
    (lib_call # None /\ lib_call.name = "process_message") =>
        LET number == NumberIn(lib_call.args[2])
            before == lib_call.args[1].phone_numbers
            held == lib_call.returned.held.phone_numbers
        IN  /\ lib_call.returned.entities.phone_numbers
                   = <<FormattedNumber(number)>>
            /\ \A i \in 1..Len(held) :
                   Cardinality(EntriesOf(normalize_phone(held[i]), held)) = 1
            /\ Cardinality(EntriesOf(number, held)) = 1
            /\ Len(held) = Len(before)
                           + (IF EntriesOf(number, before) = {} THEN 1 ELSE 0)

\* A session that holds all three numbers has been sent a text with the
\* first number in both forms, and still holds three entries.
C32_Witness ==
    /\ lib_call # None
    /\ lib_call.name = "process_message"
    /\ lib_call.args[2] \in BothForms
    /\ NumberIn(lib_call.args[2]) = FirstNumber
    /\ Len(lib_call.args[1].phone_numbers) = 3
    /\ Len(lib_call.returned.held.phone_numbers) = 3
    /\ Len(lib_call.returned.entities.phone_numbers) = 1

(***************************************************************************)
(* ConversationAgent.process_scammer_message (agent/conversation.py)       *)
(* called on one session, each call after the one before has returned.     *)
(***************************************************************************)

MaxAgentMessages == 8

notAgent ==
    <<bucketVars, switch_history, swVars, gwVars, apiVars, restVars, mockVars,
      detVars, graphVars, storeVars, lib_classifier>>

\* await classify_scam(scammer_message)
classify_scam(text, outcome) ==
    IF ClearRegexMatch(text)
    THEN regex_classify(text)
    ELSE classify_with_llm(text, outcome)

\* agent = ConversationAgent(Session(persona_id=...))
InitAgent ==
    /\ sess = <<Session("elderly_widow")>>
    /\ switch_history = <<>>
    /\ ParkedGateway /\ ParkedSwitch /\ ParkedBucket /\ ParkedEndpoints

\* await agent.process_scammer_message(scammer_message): what classify_scam
\* and generate() come back with, and the fallback line random.choice picks
\* (the typing delay returned with the response is left out)
ProcessScammerMessage(scammer_message, classified, generated, choice) ==
    LET s1 == TurnBegin(sess[1], scammer_message)
        s2 == IF s1.scam_classification = None
              THEN [s1 EXCEPT !.scam_classification =
                                  classify_scam(scammer_message, classified)]
              ELSE s1
        r == TurnEvaluate(s2, scammer_message)
        lines == FallbackLines(r.session)
        raw_response == IF generated.kind = "raise"
                        THEN lines[((choice - 1) % Len(lines)) + 1]
                        ELSE CleanResponse(generated)
    IN  /\ sess' = <<TurnReply(r.session, raw_response)>>
        /\ lib_call' =
               LibCall("process_scammer_message", <<scammer_message>>,
                       [response |-> humanize(raw_response),
                        new_entities |-> to_list(extract_all(scammer_message)),
                        switch_signal |-> r.signal])
        /\ UNCHANGED notAgent

\* Messages with no match, one urgency match, one greed match, one or two
\* fear matches
AgentTexts ==
    {Hello, SignalText(1, 0, 0), SignalText(0, 1, 0), SignalText(0, 0, 1),
     SignalText(0, 0, 2)}

\* a long conversation: the model answers every call
NextAgent ==
    \E scammer_message \in AgentTexts :
        /\ sess[1].turn_count < 2 * MaxAgentMessages
        /\ ProcessScammerMessage(scammer_message, LLMNoJson,
                                 LLMText("Oh, tell me more about it", TRUE), 1)

SpecAgent == InitAgent /\ [][NextAgent]_vars

\* a call of process_scammer_message has returned
Processed == sess'[1].turn_count > sess[1].turn_count

\* C33: every scammer turn adds the message's urgency and greed counts to
\* the session's counters, in AGGRESSIVE as in PATIENCE, and the counters
\* never decrease; the switch rule compares the totals of urgency and greed
\* but the fear count of the current message alone: the third of three
\* messages with one urgency match each triggers the urgency rule, and
\* messages with one fear match each never trigger the fear rule.
C33_CountersCumulateFearDoesNot ==
    [][Processed =>
         LET text == lib_call'.args[1]
             signal == lib_call'.returned.switch_signal
             t == sess[1].turn_count
             u == sess[1].urgency_signals + detect_urgency_level(text)
             g == sess[1].greed_signals + detect_greed_signals(text)
             f == detect_fear_tactics(text)
         IN  /\ sess'[1].urgency_signals = u
             /\ sess'[1].greed_signals = g
             /\ sess'[1].urgency_signals >= sess[1].urgency_signals
             /\ sess'[1].greed_signals >= sess[1].greed_signals
             /\ signal.should_switch =
                    (/\ sess[1].current_mode = PATIENCE
                     /\ t >= 4
                     /\ (t >= 12 \/ u >= 3 \/ g >= 2 \/ f >= 2))
             /\ (sess[1].current_mode = PATIENCE /\ t = 4 /\ u = 3 /\ g = 0
                 /\ f = 0 =>
                    /\ signal.should_switch
                    /\ signal.reason = "High urgency detected")
             /\ (signal.reason = "Fear tactics detected" => f >= 2)]_vars

\* the scammer's messages of the session so far
ScammerTexts(session) ==
    LET history == session.conversation_history
    IN  [i \in 1..(Len(history) \div 2) |-> history[2 * i - 1].content]

\* The third of three messages with one urgency match each has switched the
\* session to AGGRESSIVE by the urgency rule.
C33_Witness ==
    /\ lib_call # None
    /\ lib_call.name = "process_scammer_message"
    /\ ScammerTexts(sess[1])
           = <<SignalText(1, 0, 0), SignalText(1, 0, 0), SignalText(1, 0, 0)>>
    /\ sess[1].urgency_signals = 3
    /\ sess[1].current_mode = AGGRESSIVE
    /\ lib_call.returned.switch_signal.should_switch
    /\ lib_call.returned.switch_signal.reason = "High urgency detected"

\* Messages with one fear match each leave the session in PATIENCE until the
\* turn count alone switches it.
C33_FearDoesNotCumulate ==
    (/\ Len(sess) = 1
     /\ \A i \in 1..Len(ScammerTexts(sess[1])) :
            ScammerTexts(sess[1])[i] = SignalText(0, 0, 1)
     /\ Len(ScammerTexts(sess[1])) <= 6) =>
        sess[1].current_mode = PATIENCE

\* Messages with no match at all and messages loud enough for every rule:
\* Threat has three urgency and three fear matches, Prize five greed matches
LoudTexts == {Hello, Threat, Prize}

NextAgentLoud ==
    \E scammer_message \in LoudTexts :
        /\ sess[1].turn_count < 2 * MaxAgentMessages
        /\ ProcessScammerMessage(scammer_message, LLMNoJson,
                                 LLMText("Oh, tell me more about it", TRUE), 1)

SpecAgentLoud == InitAgent /\ [][NextAgentLoud]_vars

\* C34: at the k-th scammer message the mode switcher reads the turn count
\* 2(k-1); the replies to the first two messages are produced in PATIENCE
\* whatever the signals, the reply to the 7th and to every later message in
\* AGGRESSIVE even with no signal at all.
C34_TurnCountReadIsTwiceEarlierMessages ==
    [][Processed =>
         LET k == Len(ScammerTexts(sess'[1]))
             signal == lib_call'.returned.switch_signal
         IN  /\ sess[1].turn_count = 2 * (k - 1)
             /\ signal.turn_count = 2 * (k - 1)
             /\ (k <= 2 => sess'[1].current_mode = PATIENCE)
             /\ (k >= 7 => sess'[1].current_mode = AGGRESSIVE)]_vars

\* The 7th of seven messages without any match was read at turn count 12
\* and has switched the session to AGGRESSIVE.
C34_Witness ==
    /\ lib_call # None
    /\ lib_call.name = "process_scammer_message"
    /\ ScammerTexts(sess[1]) = [i \in 1..7 |-> Hello]
    /\ sess[1].urgency_signals = 0
    /\ sess[1].greed_signals = 0
    /\ lib_call.returned.switch_signal.turn_count = 12
    /\ lib_call.returned.switch_signal.should_switch
    /\ sess[1].current_mode = AGGRESSIVE

\* Two messages with three urgency and three fear matches each have been
\* answered in PATIENCE.
C34_LoudStartStaysPatient ==
    (/\ Len(sess) = 1
     /\ ScammerTexts(sess[1]) = <<Threat, Threat>>) =>
        /\ sess[1].urgency_signals = 6
        /\ sess[1].current_mode = PATIENCE

\* A short conversation, with every outcome of the two model calls and
\* every fallback line, for any persona.
MaxTurnMessages == 3

\* agent = ConversationAgent(Session(persona_id=...)), for any persona
InitAgentOfPersona ==
    /\ \E persona_id \in Personas : sess = <<Session(persona_id)>>
    /\ switch_history = <<>>
    /\ ParkedGateway /\ ParkedSwitch /\ ParkedBucket /\ ParkedEndpoints

TurnTexts == {Hello, Prize, Threat}

\* random.choice(mode_fallbacks): the index of the line
FallbackChoices == {1, 2, 3}

\* classify_scam is called while the session has no classification, and
\* random.choice when generate() has raised
NextAgentTurns ==
    \E scammer_message \in TurnTexts, generated \in GenerateOutcomes :
        \E classified \in IF sess[1].scam_classification = None
                          THEN ClassifyOutcomes ELSE {LLMNoJson},
           choice \in IF generated.kind = "raise"
                      THEN FallbackChoices ELSE {1} :
            /\ sess[1].turn_count < 2 * MaxTurnMessages
            /\ ProcessScammerMessage(scammer_message, classified, generated,
                                     choice)

SpecAgentTurns == InitAgentOfPersona /\ [][NextAgentTurns]_vars

\* scammer, honeypot, scammer, honeypot, ...
Alternates(history) ==
    \A i \in 1..Len(history) :
        history[i].role = (IF i % 2 = 1 THEN "scammer" ELSE "honeypot")

\* C35: after every completed process_scammer_message the turn count is
\* the length of the transcript and even, the transcript alternates
\* scammer, honeypot from a scammer message on, and the call has only
\* appended to the transcript: the entries it found are there unchanged.
C35_TranscriptAlternatesAndOnlyGrows ==
    [][Processed =>
         LET before == sess[1].conversation_history
             after == sess'[1].conversation_history
         IN  /\ sess'[1].turn_count = Len(after)
             /\ sess'[1].turn_count % 2 = 0
             /\ Alternates(after)
             /\ Len(after) = Len(before) + 2
             /\ SubSeq(after, 1, Len(before)) = before
             /\ after[Len(after) - 1].content = lib_call'.args[1]
             /\ after[Len(after)].content = lib_call'.returned.response]_vars

\* Three messages have been processed, the second answered with a fallback
\* line: six entries, the turn count 6.
C35_Witness ==
    /\ lib_call # None
    /\ lib_call.name = "process_scammer_message"
    /\ sess[1].turn_count = 6
    /\ Len(sess[1].conversation_history) = 6
    /\ sess[1].conversation_history[4].raw_content
           \in SeqToSet(FALLBACK_RESPONSES[sess[1].persona_id][PATIENCE])
    /\ sess[1].conversation_history[1].content = Prize
    /\ sess[1].conversation_history[5].content = Threat

\* C36: of the process_scammer_message calls on one session at most one
\* returns a signal with should_switch set, the call that takes the mode
\* from PATIENCE to AGGRESSIVE; every other call returns a signal without
\* it whose new_mode is the session's current mode.
C36_OneSwitchSignalAtMost ==
    [][Processed =>
         LET signal == lib_call'.returned.switch_signal
         IN  /\ signal.should_switch =
                    (/\ sess[1].current_mode = PATIENCE
                     /\ sess'[1].current_mode = AGGRESSIVE)
             /\ (signal.should_switch => signal.new_mode = AGGRESSIVE)
             /\ (~signal.should_switch =>
                    /\ signal.new_mode = sess[1].current_mode
                    /\ sess'[1].current_mode = sess[1].current_mode)
             /\ (sess[1].current_mode = AGGRESSIVE => ~signal.should_switch)
             /\ (sess[1].current_mode = AGGRESSIVE =>
                    sess'[1].current_mode = AGGRESSIVE)]_vars

\* The session was switched by its third message; the five calls after it,
\* loud or not, returned signals without should_switch, the last one with
\* new_mode AGGRESSIVE.
C36_Witness ==
    /\ lib_call # None
    /\ lib_call.name = "process_scammer_message"
    /\ Len(ScammerTexts(sess[1])) = 8
    /\ SubSeq(ScammerTexts(sess[1]), 1, 3) = <<Hello, Hello, Threat>>
    /\ ScammerTexts(sess[1])[8] = Prize
    /\ sess[1].current_mode = AGGRESSIVE
    /\ ~lib_call.returned.switch_signal.should_switch
    /\ lib_call.returned.switch_signal.new_mode = AGGRESSIVE

(***************************************************************************)
(* The two session tables of main.py under requests to every endpoint that *)
(* makes a session: POST /api/sessions and /ws/honeypot, which enter it in *)
(* active_sessions, and POST /api/honeypot, /ws/voice and /ws/auto-demo,   *)
(* which keep it in voice_sessions or in the handler's locals.             *)
(***************************************************************************)
\* str(session.session_id) of the first and second session of a run: what
\* uuid4() gave them, and what a client that was sent one may pass on as the
\* sessionId of a POST /api/honeypot.
IssuedKeys ==
    <<SessionId("0f8fad5b-d9cb-469f-a165-70867728950e", 36, TRUE),
      SessionId("7c9e6679-7425-40de-944b-e07fc1f90ae7", 36, TRUE)>>

\* The keys voice_sessions may come to hold.
TableKeys == ApiSessionIds \cup SeqToSet(IssuedKeys)

\* The keys a client names in these runs.
RequestedKeys == {ShortId, UuidId, IssuedKeys[1]}

\* active_sessions[session_id] for an id given as text: the session that was
\* issued this id and is in the table, NoId when "session_id not in
\* active_sessions".
ActiveKey(session_id) ==
    LET held == {n \in active_sessions \cap DOMAIN IssuedKeys :
                    IssuedKeys[n] = session_id}
    IN  IF held = {} THEN NoId ELSE CHOOSE n \in held : TRUE

\* SessionSummary(...) of get_sessions; duration_seconds, a reading of the
\* clock, is left out.
SessionSummary(session_id, session) ==
    [session_id |-> session_id, persona_id |-> session.persona_id,
     current_mode |-> session.current_mode,
     turn_count |-> session.turn_count,
     entity_count |-> total_count(session.extracted_entities),
     threat_level |-> None]

\* GET /api/sessions
GetSessions ==
    /\ Answer(Response(200,
          [sessions |-> {SessionSummary(n, sess[n]) : n \in active_sessions}]))
    /\ UNCHANGED <<sess, active_sessions, session_agents, serving, notRest>>

\* GET /api/health; settings.validate() is what the environment makes it.
HealthCheck(groq_configured) ==
    /\ Answer(Response(200,
          [status |-> "healthy", groq_configured |-> groq_configured,
           active_sessions |-> Cardinality(active_sessions)]))
    /\ UNCHANGED <<sess, active_sessions, session_agents, serving, notRest>>

InitTables ==
    /\ ParkedSession /\ ParkedGateway /\ ParkedSwitch /\ ParkedBucket
    /\ expected_key = ""
    /\ voice_sessions = [id \in TableKeys |-> NoEntry]
    /\ api = [r \in ApiReqs |-> NoCall]
    /\ api_in = 0
    /\ callbacks = <<>>
    /\ callbacks_run = 0
    /\ ParkedRest /\ ParkedMock /\ ParkedLib

\* The sample's type is clear to the regex stage: the request's turn makes
\* no classifier call.
TableRequests ==
    {HoneypotRequest(id, Prize) : id \in {ShortId, IssuedKeys[1]}}

MaxTableRequests == 1  \* requests to POST /api/honeypot

\* the request slot they are served in
TableReq == 1

\* /ws/honeypot is on the second connection, /ws/voice or /ws/auto-demo on
\* the first.
TableConn == 2

NextTables ==
    \/ \E persona_id \in WsPersonaInputs : CreateSession(persona_id)
    \/ \E session_id \in SessionIdInputs : EndSession(session_id)
    \/ \E session_id \in SessionIdInputs : GetReport(session_id)
    \/ \E session_id \in RequestedKeys : EndSession(ActiveKey(session_id))
    \/ \E session_id \in RequestedKeys : GetReport(ActiveKey(session_id))
    \/ GetSessions
    \/ HealthCheck(TRUE)
    \/ Len(sess) < MaxLifeSessions /\ WsConnect(TableConn, "young_professional")
    \/ WsDisconnect(TableConn)
    \/ \E request \in TableRequests :
          api_in < MaxTableRequests /\ ApiPost(TableReq, <<"key">>, request)
    \/ ApiGenerated(TableReq, LLMText("Oh, tell me more about it", TRUE))
    \/ SendGuviCallback
    \/ VoiceConnect("elderly_widow")
    \/ VoiceDisconnect
    \/ DemoConnect("young_professional", "lottery")

SpecTables == InitTables /\ [][NextTables]_vars

\* The sessions POST /api/honeypot, /ws/voice and /ws/auto-demo hold.
EndpointSessions ==
    {voice_sessions[id].session :
        id \in {k \in TableKeys : voice_sessions[k] # NoEntry}}
    \cup (IF DemoStarted THEN {conn[DemoConn].session} ELSE {})

\* The ids their clients know them by: the sessionId of the request, the
\* session_id of session_started, str(session.session_id).
EndpointKeys == {k \in TableKeys : voice_sessions[k] # NoEntry}

\* A step of one of the three endpoints.
EndpointStep ==
    \/ voice_sessions' # voice_sessions
    \/ api' # api
    \/ callbacks_run' # callbacks_run
    \/ conn'[DemoConn] # conn[DemoConn]

\* The table gets an entry only with the answer of POST /api/sessions or the
\* session_started of /ws/honeypot.
EntryAdded ==
    LET added == active_sessions' \ active_sessions
    IN  added # {} =>
           /\ added = {Len(sess) + 1}
           /\ \/ /\ rest_in' = rest_in + 1
                 /\ rest'.status_code = 200
                 /\ rest'.content.session_id \in added
              \/ /\ Len(ws_sent'[TableConn]) = 1
                 /\ ws_sent[TableConn] = <<>>
                 /\ ws_sent'[TableConn][1].type = "session_started"

\* What GET /api/sessions and GET /api/health answered, when the last
\* answer is theirs.
Listed ==
    IF rest # None /\ "sessions" \in DOMAIN rest.content
    THEN {s.session_id : s \in rest.content.sessions} ELSE {}

Counted ==
    IF rest # None /\ "active_sessions" \in DOMAIN rest.content
    THEN rest.content.active_sessions ELSE 0

\* A report or a DELETE for the id is answered in this step.
AskedFor(session_id) == GetReport(session_id) \/ EndSession(session_id)

TablesUntouched ==
    /\ EndpointStep => UNCHANGED <<active_sessions, session_agents>>
    /\ EntryAdded
    /\ (EndpointSessions \cap active_sessions)' = {}
    /\ (Listed \cap EndpointSessions)' = {}
    /\ (Counted <= Cardinality(active_sessions \ EndpointSessions))'
    /\ \A session_id \in SessionIdInputs :
          session_id \in EndpointSessions /\ AskedFor(session_id)
             => rest'.status_code = 404

(***************************************************************************)
(* C37: POST /api/honeypot, /ws/voice and /ws/auto-demo leave the          *)
(* active-session table unchanged, and only POST /api/sessions and a       *)
(* /ws/honeypot connect add entries to it; the sessions the three make are *)
(* never in the table, not among those GET /api/sessions lists and not in  *)
(* the count of /api/health, and GET /api/report and DELETE /api/sessions  *)
(* for their ids are answered 404 -- for the sessionId of a POST           *)
(* /api/honeypot as long as it is not also the id of a session of the      *)
(* table, in which case the report or the DELETE is that session's.        *)
(***************************************************************************)
C37_EndpointSessionsOutsideTable ==
    [][/\ TablesUntouched
       /\ \A session_id \in EndpointKeys :
             AskedFor(ActiveKey(session_id))
                => IF ActiveKey(session_id) = NoId
                   THEN rest'.status_code = 404
                   ELSE /\ rest'.status_code = 200
                        /\ rest'.content.session_id = ActiveKey(session_id)
                        /\ ActiveKey(session_id)
                              # voice_sessions[session_id].session]_vars

\* C37 as stated: every id of a session of the three endpoints is answered
\* 404 and is the id of no session listed.
C37_EndpointIdsNotFound ==
    [][/\ TablesUntouched
       /\ \A session_id \in EndpointKeys :
             /\ AskedFor(ActiveKey(session_id)) => rest'.status_code = 404
             /\ ActiveKey(session_id)' \notin Listed']_vars

\* C37's case: the table holds a session beside one of POST /api/honeypot or
\* /ws/voice and one of /ws/auto-demo, and a session request was answered
\* 404.
C37_Witness ==
    /\ active_sessions # {}
    /\ EndpointKeys # {}
    /\ DemoStarted
    /\ rest # None /\ rest.status_code = 404

\* A POST /api/honeypot was given the id of a session of the table, and the
\* report for that id was answered with the table's session.
C37_SharedIdReported ==
    /\ voice_sessions[IssuedKeys[1]] # NoEntry
    /\ 1 \in active_sessions
    /\ rest # None /\ rest.status_code = 200
    /\ "conversation_transcript" \in DOMAIN rest.content

MaxEntityTurns == 3

EntityTexts == {Hello, Prize, Pay, Repeat, Coins}

\* what the classifier's LLM call gives for the first message
EntityClassifyOutcomes ==
    {LLMJson("upi_fraud", 85, <<"asks for a payment">>), LLMNoJson, LLMError}

NextAgentEntities ==
    \E scammer_message \in EntityTexts :
        \E classified \in IF sess[1].scam_classification = None
                          THEN EntityClassifyOutcomes ELSE {LLMNoJson} :
            /\ sess[1].turn_count < 2 * MaxEntityTurns
            /\ ProcessScammerMessage(
                   scammer_message, classified,
                   LLMText("Oh, tell me more about it", TRUE), 1)

SpecAgentEntities == InitAgent /\ [][NextAgentEntities]_vars

\* Every entry of the list has an entry of its key in the other list.
KeysKept(Key(_), before, after) ==
    \A i \in 1..Len(before) :
        \E j \in 1..Len(after) : Key(after[j]) = Key(before[i])

EntitiesKept(before, after) ==
    /\ KeysKept(Lower, before.upi_ids, after.upi_ids)
    /\ KeysKept(normalize_phone, before.phone_numbers, after.phone_numbers)
    /\ KeysKept(AccountNumber, before.bank_accounts, after.bank_accounts)
    /\ KeysKept(Address, before.crypto_addresses, after.crypto_addresses)
    /\ KeysKept(ExactValue, before.urls, after.urls)
    /\ KeysKept(Lower, before.email_addresses, after.email_addresses)

\* ThreatLevel, from the lowest
LevelRank(level) ==
    CASE level = "low" -> 0
      [] level = "medium" -> 1
      [] level = "high" -> 2
      [] level = "critical" -> 3

\* the threat level of the report of the agent's session
ReportedLevel == from_session(1, sess[1]).threat_level

(***************************************************************************)
(* C39: over the turns of a session its accumulated entities only grow --  *)
(* every entity held before a turn is held after it, under its normalized  *)
(* key -- and the threat level of the session's report never decreases     *)
(* from one turn to the next.                                              *)
(***************************************************************************)
C39_EntitiesAndThreatLevelOnlyGrow ==
    [][Processed =>
          /\ EntitiesKept(sess[1].extracted_entities,
                          sess'[1].extracted_entities)
          /\ LevelRank(ReportedLevel') >= LevelRank(ReportedLevel)]_vars

\* C39's case: after three turns, the last of which brought entities the
\* session already held in another spelling and no new one, the session
\* holds entities of four categories and its report has reached "critical".
C39_Witness ==
    /\ sess[1].turn_count = 2 * MaxEntityTurns
    /\ ScammerTexts(sess[1])[3] = Prize
    /\ Len(sess[1].extracted_entities.upi_ids) = 1
    /\ Len(sess[1].extracted_entities.phone_numbers) = 1
    /\ sess[1].extracted_entities.bank_accounts # <<>>
    /\ sess[1].extracted_entities.crypto_addresses # <<>>
    /\ ReportedLevel = "critical"

(***************************************************************************)
(* find_campaigns (intel/threat_graph.py) on graphs that hold sessions.    *)
(* The graph of the module starts without a node, and then every method    *)
(* returns at its first test; the graphs drawn here are that one and one   *)
(* that holds a session node already, on which add_session_entities        *)
(* records what it is given.                                               *)
(***************************************************************************)
MaxCampaignSessions == 4

CampaignSessionIds == <<"demo-1", "demo-2", "demo-3", "demo-4", "demo-5">>

\* a DiGraph with the node of the first session
SeededGraph ==
    nx_add_node(DiGraph, NodeId("session", CampaignSessionIds[1]),
                [type |-> "session", value |-> CampaignSessionIds[1]])

CampaignGraphs == {DiGraph, SeededGraph}

CampaignEntityDicts ==
    {<<WinnerUpi>>, <<WinnerUpi, KbcUpi>>, <<KbcUpi, CallerPhone>>,
     <<CallerPhone>>}

\* min_shared_entities: none asked for, one, the default, and more than any
\* two sessions here share
CampaignMinShared == {0, 1, 2, 3}

InitCampaigns ==
    /\ ParkedSession /\ ParkedGateway /\ ParkedSwitch /\ ParkedBucket
    /\ ParkedApi /\ ParkedRest /\ ParkedMock
    /\ lib_detector = None /\ lib_analysis = None
    /\ threat_graph \in CampaignGraphs /\ graph_recorded = NoKeys
    /\ redis_store = RedisStore /\ postgres_store = PostgresStore
    /\ lib_classifier = None
    /\ lib_call = None

\* Each session is recorded once, the sessions in the order of their ids.
NextCampaigns ==
    \/ \E i \in 1..MaxCampaignSessions, pairs \in CampaignEntityDicts :
          /\ CampaignSessionIds[i] \notin DOMAIN graph_recorded
          /\ \A k \in 1..(i - 1) :
                CampaignSessionIds[k] \in DOMAIN graph_recorded
          /\ GraphAddSessionEntities(CampaignSessionIds[i], pairs)
    \/ \E min_shared_entities \in CampaignMinShared :
          GraphFindCampaigns(min_shared_entities)

SpecCampaigns == InitCampaigns /\ [][NextCampaigns]_vars

\* How many entities the two sessions were both recorded with; a session
\* that was never recorded has none.
SharedByMembers(a, b) ==
    IF a \in DOMAIN graph_recorded /\ b \in DOMAIN graph_recorded
    THEN Cardinality(graph_recorded[a] \cap graph_recorded[b])
    ELSE 0

(***************************************************************************)
(* C40: for every graph and every min_shared_entities, the campaigns one   *)
(* find_campaigns call returns are pairwise disjoint in their sessions,    *)
(* every campaign has two members at least, and every member after the     *)
(* first -- the seed -- shares min_shared_entities entity values or more   *)
(* with the seed.                                                          *)
(***************************************************************************)
C40_CampaignsDisjointAndShared ==
    (lib_call # None /\ lib_call.name = "find_campaigns") =>
        LET campaigns == lib_call.returned
            min_shared_entities == lib_call.args[1]
        IN  /\ \A i \in 1..Len(campaigns) :
                  LET members == campaigns[i].sessions
                  IN  /\ Len(members) >= 2
                      /\ Cardinality(SeqToSet(members)) = Len(members)
                      /\ campaigns[i].session_count = Len(members)
                      /\ \A k \in 2..Len(members) :
                            SharedByMembers(members[1], members[k])
                               >= min_shared_entities
            /\ \A i \in 1..Len(campaigns), j \in 1..Len(campaigns) :
                  i # j =>
                     SeqToSet(campaigns[i].sessions)
                        \cap SeqToSet(campaigns[j].sessions) = {}

\* C40's case: find_campaigns(2) has returned two campaigns of two sessions
\* each, the second session of the first sharing an entity with the seed of
\* the second.
C40_Witness ==
    /\ lib_call # None /\ lib_call.name = "find_campaigns"
    /\ lib_call.args[1] = 2
    /\ Len(lib_call.returned) = 2
    /\ SharedByMembers(lib_call.returned[1].sessions[2],
                      lib_call.returned[2].sessions[1]) = 1

====
